---- MODULE Spec2Model ----
(***************************************************************************)
(* Dialogorithm: the phone-format registry (phone_formats.py), the         *)
(* equation composer and document renderer (latex_processor.py) and the    *)
(* Generate handler of the form (dialogorithm.py).                         *)
(*                                                                         *)
(* Strings are sequences of one-character strings.  An expression of the   *)
(* equation bank is a record naming the character it stands for and its    *)
(* slot in that character's template list.                                 *)
(***************************************************************************)
EXTENDS Integers, Sequences, FiniteSets, TLC

VARIABLES
    \* registry exploration
    reg_pc, reg_digits, reg_code, reg_display, reg_valid, reg_limit,
    \* country browsing
    browse_pc, browse_continent, browse_subregion, browse_result,
    \* one generate_latex_for_number call
    pc, full_number_str, clean_number, has_plus, country_code, main_number,
    used_formulas, latex_parts, math_lines, fallback_picks, verification_path,
    verification_data,
    render_result, raised, returned,
    \* render_latex_to_png and its collaborators
    temp_dir, tool_output, logged, pdflatex_calls, pdftoppm_calls,
    \* the output directory, and the number of the current request
    out_image, out_verification, request_no,
    \* the form of dialogorithm.py
    continent_var, subregion_var, country_var, subregion_values,
    country_values, country_code_label, entry_state, local_number_var,
    formatted_display, ui_message,
    \* concurrent composer calls, each with its own locals, and the template
    \* collections of equation_bank.py they read
    frames, bank,
    \* one _get_unique_latex_for_digit call, draw by draw
    pick,
    \* the signature text and its escaped form
    sig

reg_vars == <<reg_pc, reg_digits, reg_code, reg_display, reg_valid, reg_limit,
              browse_pc, browse_continent, browse_subregion, browse_result>>

gen_vars == <<pc, full_number_str, clean_number, has_plus, country_code,
              main_number, used_formulas, latex_parts, math_lines, fallback_picks,
              verification_path, verification_data, render_result, raised, returned>>

render_vars == <<temp_dir, tool_output, logged, pdflatex_calls, pdftoppm_calls>>

out_vars == <<out_image, out_verification, request_no>>

ui_vars == <<continent_var, subregion_var, country_var, subregion_values,
             country_values, country_code_label, entry_state, local_number_var,
             formatted_display, ui_message>>

unit_vars == <<frames, bank, pick, sig>>

vars == <<reg_pc, reg_digits, reg_code, reg_display, reg_valid, reg_limit,
          browse_pc, browse_continent, browse_subregion, browse_result,
          pc, full_number_str, clean_number, has_plus, country_code,
          main_number, used_formulas, latex_parts, math_lines, fallback_picks,
          verification_path, verification_data, render_result, raised, returned,
          temp_dir, tool_output, logged, pdflatex_calls, pdftoppm_calls,
          out_image, out_verification, request_no,
          continent_var, subregion_var, country_var, subregion_values,
          country_values, country_code_label, entry_state, local_number_var,
          formatted_display, ui_message,
          frames, bank, pick, sig>>

-----------------------------------------------------------------------------
(* Characters                                                              *)

AsciiDigits == <<"0", "1", "2", "3", "4", "5", "6", "7", "8", "9">>

AsciiDigitSet == {AsciiDigits[i] : i \in 1..10}

\* A character outside 0-9 for which str.isdigit() is true (U+00B2).
SuperscriptTwo == "sup2"

\* str.isdigit of one character
IsDigit(c) == c \in AsciiDigitSet \cup {SuperscriptTwo}

\* str.isspace of one character
IsSpace(c) == c \in {" ", "\t"}

Min(a, b) == IF a <= b THEN a ELSE b

\* Python slice s[a:b], 0-based, clamped to the string
Slice(s, a, b) ==
    IF a >= Min(b, Len(s)) THEN <<>> ELSE SubSeq(s, a + 1, Min(b, Len(s)))

\* Python slice s[a:]
SliceFrom(s, a) == Slice(s, a, Len(s))

\* "".join(filter(str.isdigit, s))
StripNonDigits(s) == SelectSeq(s, IsDigit)

\* str.isdigit of a string: non-empty and every character a digit
StrIsDigit(s) == Len(s) > 0 /\ \A i \in 1..Len(s) : IsDigit(s[i])

-----------------------------------------------------------------------------
(* phone_formats.py                                                        *)

LOCAL_DIGIT_LIMITS_BY_CODE == {
    <<1, 10>>, <<7, 10>>, <<20, 9>>, <<27, 9>>, <<30, 10>>, <<31, 9>>, <<32, 9>>, <<33, 10>>,
    <<34, 9>>, <<36, 9>>, <<39, 10>>, <<40, 9>>, <<41, 9>>, <<43, 11>>, <<44, 11>>, <<45, 8>>,
    <<46, 9>>, <<47, 8>>, <<48, 9>>, <<49, 11>>, <<51, 9>>, <<52, 10>>, <<53, 8>>, <<54, 10>>,
    <<55, 11>>, <<56, 9>>, <<57, 10>>, <<58, 10>>, <<60, 9>>, <<61, 9>>, <<62, 11>>, <<63, 10>>,
    <<64, 9>>, <<65, 8>>, <<66, 9>>, <<81, 10>>, <<82, 10>>, <<84, 9>>, <<86, 11>>, <<90, 10>>,
    <<91, 10>>, <<92, 10>>, <<93, 9>>, <<94, 9>>, <<95, 9>>, <<98, 10>>, <<211, 9>>, <<212, 9>>,
    <<213, 9>>, <<216, 8>>, <<218, 9>>, <<220, 7>>, <<221, 9>>, <<222, 8>>, <<223, 8>>, <<224, 9>>,
    <<225, 8>>, <<226, 8>>, <<227, 8>>, <<228, 8>>, <<229, 8>>, <<230, 7>>, <<231, 8>>, <<232, 8>>,
    <<233, 9>>, <<234, 10>>, <<235, 8>>, <<236, 8>>, <<237, 9>>, <<238, 7>>, <<239, 7>>, <<240, 9>>,
    <<241, 8>>, <<242, 9>>, <<243, 9>>, <<244, 9>>, <<245, 7>>, <<248, 7>>, <<249, 9>>, <<250, 9>>,
    <<251, 9>>, <<252, 8>>, <<253, 8>>, <<254, 9>>, <<255, 9>>, <<256, 9>>, <<257, 8>>, <<258, 9>>,
    <<260, 9>>, <<261, 10>>, <<262, 9>>, <<263, 9>>, <<264, 9>>, <<265, 9>>, <<266, 8>>, <<267, 8>>,
    <<268, 8>>, <<269, 7>>, <<290, 4>>, <<291, 7>>, <<297, 7>>, <<298, 6>>, <<299, 6>>, <<350, 8>>,
    <<351, 9>>, <<352, 9>>, <<353, 9>>, <<354, 7>>, <<355, 9>>, <<356, 8>>, <<357, 8>>, <<358, 10>>,
    <<359, 9>>, <<370, 8>>, <<371, 8>>, <<372, 8>>, <<373, 8>>, <<374, 8>>, <<375, 9>>, <<376, 6>>,
    <<377, 8>>, <<378, 10>>, <<380, 9>>, <<381, 9>>, <<382, 8>>, <<383, 8>>, <<385, 9>>, <<386, 8>>,
    <<387, 8>>, <<389, 8>>, <<420, 9>>, <<421, 9>>, <<423, 7>>, <<500, 5>>, <<501, 7>>, <<502, 8>>,
    <<503, 8>>, <<504, 8>>, <<505, 8>>, <<506, 8>>, <<507, 8>>, <<508, 6>>, <<509, 8>>, <<590, 9>>,
    <<591, 8>>, <<592, 7>>, <<593, 9>>, <<594, 9>>, <<595, 9>>, <<596, 9>>, <<597, 7>>, <<598, 8>>,
    <<599, 7>>, <<670, 8>>, <<671, 7>>, <<672, 6>>, <<673, 7>>, <<674, 7>>, <<675, 8>>, <<676, 7>>,
    <<677, 7>>, <<678, 7>>, <<679, 7>>, <<680, 7>>, <<681, 6>>, <<682, 5>>, <<683, 4>>, <<684, 7>>,
    <<685, 7>>, <<686, 8>>, <<687, 6>>, <<688, 5>>, <<689, 8>>, <<690, 4>>, <<691, 7>>, <<692, 7>>,
    <<850, 10>>, <<852, 8>>, <<853, 8>>, <<855, 9>>, <<856, 10>>, <<872, 6>>, <<880, 10>>, <<886, 9>>,
    <<960, 7>>, <<961, 8>>, <<962, 9>>, <<963, 9>>, <<964, 10>>, <<965, 8>>, <<966, 9>>, <<967, 9>>,
    <<968, 8>>, <<970, 9>>, <<971, 9>>, <<972, 9>>, <<973, 8>>, <<974, 8>>, <<975, 8>>, <<976, 8>>,
    <<977, 10>>, <<992, 9>>, <<993, 8>>, <<994, 9>>, <<995, 9>>, <<996, 9>>, <<998, 9>>
}

DEFAULT_DIGIT_LIMIT == 15

\* get_digit_limit without the default
get_digit_limit_nodefault(calling_code) ==
    IF \E p \in LOCAL_DIGIT_LIMITS_BY_CODE : p[1] = calling_code
    THEN (CHOOSE p \in LOCAL_DIGIT_LIMITS_BY_CODE : p[1] = calling_code)[2]
    ELSE 0

get_digit_limit(calling_code) ==
    IF \E p \in LOCAL_DIGIT_LIMITS_BY_CODE : p[1] = calling_code
    THEN (CHOOSE p \in LOCAL_DIGIT_LIMITS_BY_CODE : p[1] = calling_code)[2]
    ELSE DEFAULT_DIGIT_LIMIT

\* ' '.join(re.findall(r'.{1,2}', digits))
RECURSIVE JoinPairs(_)
JoinPairs(digits) ==
    IF Len(digits) <= 2 THEN digits
    ELSE Slice(digits, 0, 2) \o <<" ">> \o JoinPairs(SliceFrom(digits, 2))

\* a generic fallback that cuts after every third digit up to the ninth
GenericFormat_threes(digits) ==
    Slice(digits, 0, 3)
    \o (IF Len(digits) > 3 THEN <<" ">> \o Slice(digits, 3, 6) ELSE <<>>)
    \o (IF Len(digits) > 6 THEN <<" ">> \o Slice(digits, 6, 9) ELSE <<>>)
    \o (IF Len(digits) > 9 THEN <<" ">> \o SliceFrom(digits, 9) ELSE <<>>)

\* the generic fallback of format_display_number
GenericFormat(digits) ==
    IF Len(digits) <= 6 THEN digits
    ELSE IF Len(digits) <= 10
    THEN Slice(digits, 0, 3) \o <<" ">> \o Slice(digits, 3, 6) \o <<" ">>
         \o SliceFrom(digits, 6)
    ELSE Slice(digits, 0, 3) \o <<" ">> \o Slice(digits, 3, 6) \o <<" ">>
         \o Slice(digits, 6, 10) \o <<" ">> \o SliceFrom(digits, 10)

\* the France rule of format_display_number
FormatFrance(digits) ==
    IF Len(digits) = 10
    THEN Slice(digits, 0, 1) \o <<" ">> \o Slice(digits, 1, 3) \o <<" ">>
         \o Slice(digits, 3, 5) \o <<" ">> \o Slice(digits, 5, 7) \o <<" ">>
         \o Slice(digits, 7, 9)
    ELSE JoinPairs(digits)

format_display_number(digits, calling_code) ==
    LET n == Len(digits) IN
    IF n = 0 THEN <<>>
    ELSE IF calling_code = 1 /\ n = 10
    THEN <<"(">> \o Slice(digits, 0, 3) \o <<")", " ">> \o Slice(digits, 3, 6)
         \o <<"-">> \o SliceFrom(digits, 6)
    ELSE IF calling_code = 44
    THEN IF n = 10 THEN Slice(digits, 0, 4) \o <<" ">> \o SliceFrom(digits, 4)
         ELSE IF n = 11 THEN Slice(digits, 0, 5) \o <<" ">> \o SliceFrom(digits, 5)
         ELSE GenericFormat(digits)
    ELSE IF calling_code = 33 /\ n >= 9
    THEN FormatFrance(digits)
    ELSE IF calling_code = 49 /\ n >= 10
    THEN Slice(digits, 0, 4) \o <<" ">> \o SliceFrom(digits, 4)
    ELSE IF calling_code = 81 /\ n = 10
    THEN Slice(digits, 0, 2) \o <<"-">> \o Slice(digits, 2, 6) \o <<"-">>
         \o SliceFrom(digits, 6)
    ELSE IF calling_code = 82 /\ n >= 9
    THEN Slice(digits, 0, 2) \o <<"-">> \o Slice(digits, 2, 5) \o <<"-">>
         \o SliceFrom(digits, 5)
    ELSE IF calling_code = 86 /\ n = 11
    THEN Slice(digits, 0, 3) \o <<" ">> \o Slice(digits, 3, 7) \o <<" ">>
         \o SliceFrom(digits, 7)
    ELSE IF calling_code = 91 /\ n = 10
    THEN Slice(digits, 0, 5) \o <<" ">> \o SliceFrom(digits, 5)
    ELSE IF calling_code = 61 /\ n = 9
    THEN Slice(digits, 0, 1) \o <<" ">> \o Slice(digits, 1, 5) \o <<" ">>
         \o SliceFrom(digits, 5)
    ELSE IF calling_code = 55 /\ n \in {10, 11}
    THEN IF n = 11
         THEN <<"(">> \o Slice(digits, 0, 2) \o <<")", " ">> \o Slice(digits, 2, 7)
              \o <<"-">> \o SliceFrom(digits, 7)
         ELSE <<"(">> \o Slice(digits, 0, 2) \o <<")", " ">> \o Slice(digits, 2, 6)
              \o <<"-">> \o SliceFrom(digits, 6)
    ELSE GenericFormat(digits)

\* one of the country rules of format_display_number returns for a local
\* number of n digits
HasCountryRule(calling_code, n) ==
    \/ calling_code = 1 /\ n = 10
    \/ calling_code = 44 /\ n \in {10, 11}
    \/ calling_code = 33 /\ n >= 9
    \/ calling_code = 49 /\ n >= 10
    \/ calling_code = 81 /\ n = 10
    \/ calling_code = 82 /\ n >= 9
    \/ calling_code = 86 /\ n = 11
    \/ calling_code = 91 /\ n = 10
    \/ calling_code = 61 /\ n = 9
    \/ calling_code = 55 /\ n \in {10, 11}

validate_digit_input(current_digits, calling_code) ==
    IF ~StrIsDigit(current_digits) THEN FALSE
    ELSE Len(current_digits) <= get_digit_limit(calling_code)

-----------------------------------------------------------------------------
(* equation_bank.py                                                        *)

\* number of templates modelled for a digit of RichDigits
NumTemplates == 2

\* digits whose template list is modelled with NumTemplates entries; the
\* lists of the other digits are modelled with one entry
RichDigits == {"1", "5"}

Token(k, c, i) == [k |-> k, c |-> c, i |-> i]

\* eq_plus(): \mathbf{+}
eq_plus == Token("plus", "+", 0)

\* eq_placeholder(digit_char): \mathbf{\textit{(digit_char)}}
eq_placeholder(digit_char) == Token("placeholder", digit_char, 0)

\* hasattr(equation_bank, "_get_<digit_char>_templates")
HasTemplates(digit_char) == digit_char \in AsciiDigitSet

\* _get_<digit_char>_templates(): the template list of a digit, as a set of
\* distinct expressions; no expression belongs to two digits
Templates(digit_char) ==
    {Token("template", digit_char, i) :
        i \in 1..(IF digit_char \in RichDigits THEN NumTemplates ELSE 1)}

-----------------------------------------------------------------------------
(* latex_processor.py: separators                                          *)

QUAD == Token("sep", "\\quad", 0)
THINSPACE == Token("sep", "\\;", 0)
DASH == Token("sep", "\\text{---}", 0)
OPEN_PAREN == Token("sep", "\\boldsymbol{(}", 0)
CLOSE_PAREN == Token("sep", "\\boldsymbol{)}", 0)

MAX_UNIQUE_ATTEMPTS == 15

\* PickResults whose loop returns a draw without testing it against used_formulas
PickResults_nocheck(digit_char, used) ==
    IF ~IsDigit(digit_char) \/ ~HasTemplates(digit_char)
    THEN {<<eq_placeholder(digit_char), used, "placeholder">>}
    ELSE {<<t, used \cup {t}, "loop">> : t \in Templates(digit_char)}

\* _get_unique_latex_for_digit(digit_char, used_formulas): every triple
\* <<returned expression, used_formulas afterwards, return statement>> the
\* random draws allow.  A draw collides when it lands in used_formulas; the
\* loop returns the first draw that does not collide and records it (line
\* 222); after MAX_UNIQUE_ATTEMPTS collisions one more draw is returned and
\* not recorded (line 224).
PickResults(digit_char, used) ==
    IF ~IsDigit(digit_char) \/ ~HasTemplates(digit_char)
    THEN {<<eq_placeholder(digit_char), used, "placeholder">>}
    ELSE LET all_templates == Templates(digit_char) IN
         {<<t, used \cup {t}, "loop">> : t \in all_templates \ used}
         \cup
         (IF MAX_UNIQUE_ATTEMPTS > 0 /\ all_templates \cap used = {}
          THEN {}
          ELSE {<<t, used, "fallback">> : t \in all_templates})

\* full_number_str.strip()
RECURSIVE LStrip(_)
LStrip(s) == IF Len(s) > 0 /\ IsSpace(s[1]) THEN LStrip(Tail(s)) ELSE s

RECURSIVE RStrip(_)
RStrip(s) ==
    IF Len(s) > 0 /\ IsSpace(s[Len(s)]) THEN RStrip(SubSeq(s, 1, Len(s) - 1)) ELSE s

Strip(s) == RStrip(LStrip(s))

\* full_number_str.strip().startswith('+')
HasPlus(s) == Len(Strip(s)) > 0 /\ Strip(s)[1] = "+"

\* Segment with the subscriber part one digit short
Segment_short(clean, plus) ==
    IF plus /\ Len(clean) = 11 /\ clean[1] = "1"
    THEN <<<<"1">>, SliceFrom(clean, 1)>>
    ELSE IF plus /\ Len(clean) > 10
    THEN <<Slice(clean, 0, Len(clean) - 10), SliceFrom(clean, Len(clean) - 9)>>
    ELSE <<<<>>, clean>>

\* Segment that splits long numbers whether or not a '+' leads
Segment_noplus(clean, plus) ==
    IF Len(clean) = 11 /\ clean[1] = "1"
    THEN <<<<"1">>, SliceFrom(clean, 1)>>
    ELSE IF Len(clean) > 10
    THEN <<Slice(clean, 0, Len(clean) - 10), SliceFrom(clean, Len(clean) - 10)>>
    ELSE <<<<>>, clean>>

\* the country-code split of generate_latex_for_number: <<country_code, main_number>>
Segment(clean, plus) ==
    IF plus /\ Len(clean) = 11 /\ clean[1] = "1"
    THEN <<<<"1">>, SliceFrom(clean, 1)>>
    ELSE IF plus /\ Len(clean) > 10
    THEN <<Slice(clean, 0, Len(clean) - 10), SliceFrom(clean, Len(clean) - 10)>>
    ELSE <<<<>>, clean>>

\* TokensForDigit that puts the dash after the fifth subscriber digit
TokensForDigit_dashearly(p, expr, cc, mn) ==
    IF p <= Len(cc)
    THEN <<expr>> \o (IF p = Len(cc) THEN <<QUAD>> ELSE <<>>)
    ELSE LET j == p - Len(cc) IN
         IF Len(mn) = 10
         THEN (IF j = 1 THEN <<OPEN_PAREN>> ELSE <<>>)
              \o <<expr>>
              \o (IF j = 3 THEN <<CLOSE_PAREN, THINSPACE>>
                  ELSE IF j = 5 THEN <<DASH>> ELSE <<>>)
         ELSE <<expr>>

\* the tokens appended to latex_parts for digit number p (1-based, counted
\* over country_code then main_number) once its expression is picked
TokensForDigit(p, expr, cc, mn) ==
    IF p <= Len(cc)
    THEN <<expr>> \o (IF p = Len(cc) THEN <<QUAD>> ELSE <<>>)
    ELSE LET j == p - Len(cc) IN
         IF Len(mn) = 10
         THEN (IF j = 1 THEN <<OPEN_PAREN>> ELSE <<>>)
              \o <<expr>>
              \o (IF j = 3 THEN <<CLOSE_PAREN, THINSPACE>>
                  ELSE IF j = 6 THEN <<DASH>> ELSE <<>>)
         ELSE <<expr>>

\* number of digit tokens in a token list
DigitTokens(parts) == SelectSeq(parts, LAMBDA t : t.k \in {"template", "placeholder"})

\* the characters the digit tokens of a token list stand for, in order
DigitTokenValues(parts) ==
    LET d == DigitTokens(parts) IN [i \in 1..Len(d) |-> d[i].c]

Msg(type, text, detail) == [type |-> type, text |-> text, detail |-> detail]

\* GenBegin without the "at least one digit" check of lines 237-238
GenBegin_nodigitcheck ==
    /\ pc = "call"
    /\ IF Len(Strip(full_number_str)) = 0
       THEN /\ raised' = Msg("ValueError", "Phone number cannot be empty", "")
            /\ pc' = "raised"
            /\ UNCHANGED <<clean_number, has_plus, country_code, main_number,
                           latex_parts>>
       ELSE LET clean == StripNonDigits(full_number_str)
                plus == HasPlus(full_number_str)
                seg == Segment(clean, plus)
            IN  /\ clean_number' = clean
                /\ has_plus' = plus
                /\ country_code' = seg[1]
                /\ main_number' = seg[2]
                /\ latex_parts' = IF plus THEN <<eq_plus>> ELSE <<>>
                /\ pc' = IF Len(clean) = 0 THEN "verify" ELSE "compose"
                /\ UNCHANGED raised
    /\ UNCHANGED <<full_number_str, used_formulas, fallback_picks, math_lines,
                   verification_path, verification_data, render_result, returned>>
    /\ UNCHANGED <<reg_vars, unit_vars, ui_vars, render_vars, out_vars>>

\* generate_latex_for_number, lines 230-247: input checks, cleaning, split
GenBegin ==
    /\ pc = "call"
    /\ IF Len(Strip(full_number_str)) = 0
       THEN /\ raised' = Msg("ValueError", "Phone number cannot be empty", "")
            /\ pc' = "raised"
            /\ UNCHANGED <<clean_number, has_plus, country_code, main_number,
                           latex_parts>>
       ELSE LET clean == StripNonDigits(full_number_str)
                plus == HasPlus(full_number_str)
                seg == Segment(clean, plus)
            IN  /\ clean_number' = clean
                /\ has_plus' = plus
                /\ IF Len(clean) = 0
                   THEN /\ raised' = Msg("ValueError",
                                "Phone number must contain at least one digit", "")
                        /\ pc' = "raised"
                        /\ UNCHANGED <<country_code, main_number, latex_parts>>
                   ELSE /\ country_code' = seg[1]
                        /\ main_number' = seg[2]
                        /\ latex_parts' = IF plus THEN <<eq_plus>> ELSE <<>>
                        /\ pc' = "compose"
                        /\ UNCHANGED raised
    /\ UNCHANGED <<full_number_str, used_formulas, fallback_picks, math_lines,
                   verification_path, verification_data, render_result, returned>>
    /\ UNCHANGED <<reg_vars, unit_vars, ui_vars, render_vars, out_vars>>

\* generate_latex_for_number, lines 249-266: one _get_unique_latex_for_digit
\* call and the separators that follow its digit
GenPick ==
    /\ pc = "compose"
    /\ LET p == Len(DigitTokens(latex_parts)) + 1
           digits == country_code \o main_number
       IN  /\ p <= Len(digits)
           /\ \E r \in PickResults(digits[p], used_formulas) :
                /\ latex_parts' = latex_parts
                        \o TokensForDigit(p, r[1], country_code, main_number)
                /\ used_formulas' = r[2]
                /\ fallback_picks' = IF r[3] = "fallback"
                                     THEN fallback_picks \cup {p}
                                     ELSE fallback_picks
           /\ pc' = IF p = Len(digits) THEN "wrap" ELSE "compose"
    /\ UNCHANGED <<full_number_str, clean_number, has_plus, country_code,
                   main_number, math_lines, verification_path, verification_data,
                   render_result,
                   raised, returned>>
    /\ UNCHANGED <<reg_vars, unit_vars, ui_vars, render_vars, out_vars>>

-----------------------------------------------------------------------------
(* Registry exploration: the functions of phone_formats.py applied to a    *)
(* bounded set of strings and calling codes.                               *)

\* longest local string tried
MaxLocalLen == 12

\* calling codes tried: every code with a rule of its own, codes that use
\* the generic rule with limits 10, 7, 6 and 4, and two codes outside the table
RegCodes == {1, 44, 33, 49, 81, 82, 86, 91, 61, 55, 7, 220, 672, 290, 999, 0}

\* characters that may replace one position of a digit run
RegChars == {"7", "a", " ", "+", SuperscriptTwo}

\* the digit run 1 2 3 ... 9 0 1 2 ... of length n
DigitRun(n) == [i \in 1..n |-> AsciiDigits[(i % 10) + 1]]

\* digit runs, and digit runs with one position replaced
RegStrings ==
    {DigitRun(n) : n \in 0..MaxLocalLen} \cup
    {[DigitRun(n) EXCEPT ![k] = c] :
        <<n, k, c>> \in {t \in (1..MaxLocalLen) \X (1..MaxLocalLen) \X RegChars :
                            t[2] <= t[1]}}

NoResult == <<"none">>

\* get_digit_limit has not returned yet
NoLimit == -1

\* no browsing call is made
BrowseIdle ==
    /\ browse_pc = "idle"
    /\ browse_continent = ""
    /\ browse_subregion = ""
    /\ browse_result = {}

\* the registry part of the state when the registry is not being explored
RegIdle ==
    /\ reg_pc = "idle"
    /\ reg_digits = <<>>
    /\ reg_code = 0
    /\ reg_display = NoResult
    /\ reg_valid = "none"
    /\ reg_limit = NoLimit
    /\ BrowseIdle

\* no exception, no path, no message
None == [type |-> "None", text |-> "", detail |-> ""]

\* no temporary directory exists
NoTempDir == [exists |-> FALSE, tex |-> <<>>, pdf |-> FALSE, png |-> FALSE]

\* Dialogorithm_Contact.png in the output directory: absent
NoImage == [state |-> "absent", request |-> 0]

\* Dialogorithm_Contact.png written before the first request followed here
PriorImage == [state |-> "rendered", request |-> 0]

\* the local variables of generate_latex_for_number and render_latex_to_png
\* before a call
NoCall ==
    /\ clean_number = <<>>
    /\ has_plus = FALSE
    /\ country_code = <<>>
    /\ main_number = <<>>
    /\ used_formulas = {}
    /\ latex_parts = <<>>
    /\ math_lines = <<>>
    /\ fallback_picks = {}
    /\ verification_path = "None"
    /\ verification_data = <<>>
    /\ render_result = <<"None", None>>
    /\ raised = None
    /\ returned = "None"
    /\ temp_dir = NoTempDir
    /\ tool_output = ""
    /\ logged = {}
    /\ pdflatex_calls = 0
    /\ pdftoppm_calls = 0

\* number of composer calls that may be in progress at once
NumCalls == 2

Calls == 1..NumCalls

\* the locals of a generate_latex_for_number call that has not started
FrameIdle ==
    [pc |-> "idle", clean_number |-> <<>>, latex_parts |-> <<>>,
     used_formulas |-> {}, runs |-> 0]

\* the template lists the _get_<d>_templates functions of equation_bank.py
\* return, by digit
BankTemplates == [d \in AsciiDigitSet |-> Templates(d)]

NoExpression == Token("none", "", 0)

\* no _get_unique_latex_for_digit call under observation
PickIdle ==
    [pc |-> "idle", digit_char |-> "0", used_before |-> {}, used_formulas |-> {},
     attempts |-> 0, draws |-> 0, latex_str |-> NoExpression, ret |-> "none"]

\* no signature under observation
SigIdle == [pc |-> "idle", signature_text |-> <<>>, escaped_signature |-> <<>>]

UnitIdle ==
    /\ frames = [c \in Calls |-> FrameIdle]
    /\ bank = BankTemplates
    /\ pick = PickIdle
    /\ sig = SigIdle

\* the form as built by the GUI setup of dialogorithm.py, lines 391-474
UiStart ==
    /\ continent_var = "All Continents"
    /\ subregion_var = ""
    /\ country_var = ""
    /\ subregion_values = {}
    /\ country_values = {}
    /\ country_code_label = <<"+">>
    /\ entry_state = "disabled"
    /\ local_number_var = <<>>
    /\ formatted_display = <<>>
    /\ ui_message = "none"

\* the composer and renderer part of the state when no call is in progress
GenIdle ==
    /\ pc = "idle"
    /\ full_number_str = <<>>
    /\ NoCall
    /\ out_image = NoImage
    /\ out_verification = <<>>
    /\ request_no = 0

RegInit ==
    /\ reg_pc = "ready"
    /\ reg_digits \in RegStrings
    /\ reg_code \in RegCodes
    /\ reg_display = NoResult
    /\ reg_valid = "none"
    /\ reg_limit = NoLimit
    /\ BrowseIdle
    /\ GenIdle
    /\ UiStart
    /\ UnitIdle

RegValidate ==
    /\ reg_pc = "ready"
    /\ reg_valid = "none"
    /\ reg_valid' = IF validate_digit_input(reg_digits, reg_code)
                    THEN "True" ELSE "False"
    /\ UNCHANGED <<reg_pc, reg_digits, reg_code, reg_display, reg_limit>>
    /\ UNCHANGED <<browse_pc, browse_continent, browse_subregion, browse_result>>
    /\ UNCHANGED <<gen_vars, render_vars, out_vars, ui_vars, unit_vars>>

RegFormat ==
    /\ reg_pc = "ready"
    /\ reg_display = NoResult
    /\ reg_display' = format_display_number(reg_digits, reg_code)
    /\ UNCHANGED <<reg_pc, reg_digits, reg_code, reg_valid, reg_limit>>
    /\ UNCHANGED <<browse_pc, browse_continent, browse_subregion, browse_result>>
    /\ UNCHANGED <<gen_vars, render_vars, out_vars, ui_vars, unit_vars>>

RegNext == RegValidate \/ RegFormat

SpecReg == RegInit /\ [][RegNext]_vars

-----------------------------------------------------------------------------
(* Digit-limit lookups: get_digit_limit applied to one calling code        *)

\* the keys of LOCAL_DIGIT_LIMITS_BY_CODE
TableCodes == {p[1] : p \in LOCAL_DIGIT_LIMITS_BY_CODE}

\* largest calling code looked up
MaxCode == 1000

\* codes looked up: every key of the table and every other code up to MaxCode
LimitCodes == TableCodes \cup (0..MaxCode)

LimitInit ==
    /\ reg_pc = "ready"
    /\ reg_digits = <<>>
    /\ reg_code \in LimitCodes
    /\ reg_display = NoResult
    /\ reg_valid = "none"
    /\ reg_limit = NoLimit
    /\ BrowseIdle
    /\ GenIdle
    /\ UiStart
    /\ UnitIdle

RegLimit ==
    /\ reg_pc = "ready"
    /\ reg_limit = NoLimit
    /\ reg_limit' = get_digit_limit(reg_code)
    /\ UNCHANGED <<reg_pc, reg_digits, reg_code, reg_display, reg_valid>>
    /\ UNCHANGED <<browse_pc, browse_continent, browse_subregion, browse_result>>
    /\ UNCHANGED <<gen_vars, render_vars, out_vars, ui_vars, unit_vars>>

LimitNext == RegLimit

SpecLimit == LimitInit /\ [][LimitNext]_vars

MAX_LINE_LENGTH == 3

\* the wrapping loop closing a line only when it holds more than
\* MAX_LINE_LENGTH columns
RECURSIVE WrapFrom_late(_, _, _, _)
WrapFrom_late(parts, i, lines, current_line) ==
    IF i > Len(parts)
    THEN IF current_line # <<>> THEN Append(lines, current_line) ELSE lines
    ELSE LET gathered == SubSeq(parts, i + 1, Min(i + 3, Len(parts)))
             j == i + 1 + Len(gathered)
             closes == j <= Len(parts) /\ parts[j] = CLOSE_PAREN
             column == IF parts[i] = OPEN_PAREN
                       THEN <<OPEN_PAREN>> \o gathered
                            \o (IF closes THEN <<CLOSE_PAREN>> ELSE <<>>)
                       ELSE <<parts[i]>>
             next == IF parts[i] = OPEN_PAREN
                     THEN (IF closes THEN j + 1 ELSE j)
                     ELSE i + 1
             line == Append(current_line, column)
         IN  IF Len(line) > MAX_LINE_LENGTH
             THEN WrapFrom_late(parts, next, Append(lines, line), <<>>)
             ELSE WrapFrom_late(parts, next, lines, line)

\* the wrapping loop without the final append of an unfinished line
RECURSIVE WrapFrom_droptail(_, _, _, _)
WrapFrom_droptail(parts, i, lines, current_line) ==
    IF i > Len(parts)
    THEN lines
    ELSE LET gathered == SubSeq(parts, i + 1, Min(i + 3, Len(parts)))
             j == i + 1 + Len(gathered)
             closes == j <= Len(parts) /\ parts[j] = CLOSE_PAREN
             column == IF parts[i] = OPEN_PAREN
                       THEN <<OPEN_PAREN>> \o gathered
                            \o (IF closes THEN <<CLOSE_PAREN>> ELSE <<>>)
                       ELSE <<parts[i]>>
             next == IF parts[i] = OPEN_PAREN
                     THEN (IF closes THEN j + 1 ELSE j)
                     ELSE i + 1
             line == Append(current_line, column)
         IN  IF Len(line) >= MAX_LINE_LENGTH
             THEN WrapFrom_droptail(parts, next, Append(lines, line), <<>>)
             ELSE WrapFrom_droptail(parts, next, lines, line)

\* format_equation_with_line_breaks from index i (1-based) on: the lines,
\* each a list of columns, each column the tokens joined into it
RECURSIVE WrapFrom(_, _, _, _)
WrapFrom(parts, i, lines, current_line) ==
    IF i > Len(parts)
    THEN IF current_line # <<>> THEN Append(lines, current_line) ELSE lines
    ELSE LET gathered == SubSeq(parts, i + 1, Min(i + 3, Len(parts)))
             j == i + 1 + Len(gathered)
             closes == j <= Len(parts) /\ parts[j] = CLOSE_PAREN
             column == IF parts[i] = OPEN_PAREN
                       THEN <<OPEN_PAREN>> \o gathered
                            \o (IF closes THEN <<CLOSE_PAREN>> ELSE <<>>)
                       ELSE <<parts[i]>>
             next == IF parts[i] = OPEN_PAREN
                     THEN (IF closes THEN j + 1 ELSE j)
                     ELSE i + 1
             line == Append(current_line, column)
         IN  IF Len(line) >= MAX_LINE_LENGTH
             THEN WrapFrom(parts, next, Append(lines, line), <<>>)
             ELSE WrapFrom(parts, next, lines, line)

\* wrapping that puts every token in a column of its own
format_equation_with_line_breaks_flat(parts) ==
    [l \in 1..((Len(parts) + 2) \div 3) |->
        [c \in 1..Min(3, Len(parts) - 3 * (l - 1)) |-> <<parts[3 * (l - 1) + c]>>]]

format_equation_with_line_breaks(parts) == WrapFrom(parts, 1, <<>>, <<>>)

\* generate_latex_for_number, line 269: the composed stream is wrapped
GenWrap ==
    /\ pc = "wrap"
    /\ math_lines' = format_equation_with_line_breaks(latex_parts)
    /\ pc' = "verify"
    /\ UNCHANGED <<full_number_str, clean_number, has_plus, country_code,
                   main_number, used_formulas, latex_parts, fallback_picks,
                   verification_path, verification_data, render_result, raised, returned>>
    /\ UNCHANGED <<reg_vars, unit_vars, ui_vars, render_vars, out_vars>>

\* the document text handed to the renderer: the wrapped math lines inside
\* the fixed preamble (never empty)
LatexDoc(parts) == [math_lines |-> format_equation_with_line_breaks(parts)]

\* the expressions create_verification_output lists: every part that is not
\* one of the five formatting elements
ExpressionsToVerify(parts) ==
    SelectSeq(parts, LAMBDA t : t \notin {QUAD, THINSPACE, DASH, OPEN_PAREN, CLOSE_PAREN})

\* create_verification_output, lines 93-108, without the plus entry
ExpectedSequence_noplus(str) ==
    LET clean == StripNonDigits(str)
        plus == HasPlus(str)
        cc_len == Len(clean) - 10
    IN  IF plus /\ Len(clean) = 11 /\ clean[1] = "1"
        THEN <<"1">> \o SliceFrom(clean, 1)
        ELSE IF plus /\ Len(clean) > 10
        THEN Slice(clean, 0, cc_len) \o SliceFrom(clean, cc_len)
        ELSE clean

\* create_verification_output, lines 89-108: expected_sequence, rebuilt from
\* the input string
ExpectedSequence(str) ==
    LET clean == StripNonDigits(str)
        plus == HasPlus(str)
        cc_len == Len(clean) - 10
    IN  (IF plus THEN <<"+">> ELSE <<>>)
        \o (IF plus /\ Len(clean) = 11 /\ clean[1] = "1"
            THEN <<"1">> \o SliceFrom(clean, 1)
            ELSE IF plus /\ Len(clean) > 10
            THEN Slice(clean, 0, cc_len) \o SliceFrom(clean, cc_len)
            ELSE clean)

\* int(c) raises ValueError: str.isdigit() is true of c but c is no decimal
IntRaises(c) == IsDigit(c) /\ c \notin AsciiDigitSet

\* create_verification_output, lines 124-149: the loop over latex_parts
\* raises while converting an expected value
VerificationRaises(str, parts) ==
    LET expected == ExpectedSequence(str)
        n == Min(Len(ExpressionsToVerify(parts)), Len(expected))
    IN  \E i \in 1..n : IntRaises(expected[i])

\* create_verification_output, lines 124-149: expressions_to_verify, one
\* record per part that is not a formatting element, its expected value
\* taken from expected_sequence by position
VerificationRecords(str, parts) ==
    LET expected == ExpectedSequence(str)
        exprs == ExpressionsToVerify(parts)
    IN  [i \in 1..Len(exprs) |->
            [latex_expression |-> exprs[i],
             expected_value |-> IF i <= Len(expected) THEN expected[i] ELSE "None"]]

\* a verification_<timestamp>.txt file of the output directory: the request
\* that wrote it and whether it was written to the end
VerificationFile(request, complete) == [request |-> request, complete |-> complete]

\* diagnostic text an external tool may print
Diagnostics == {"! Undefined control sequence.", "Syntax Error: broken PDF"}

TimeoutText == "Command timed out after N seconds"
NotFoundText == "[Errno 2] No such file or directory"
ExitStatusText == "Command returned non-zero exit status 1."

\* GenVerify without the try/except of lines 300-311: an exception of
\* create_verification_output leaves generate_latex_for_number
GenVerify_propagate ==
    /\ pc = "verify"
    /\ \/ /\ ~VerificationRaises(full_number_str, latex_parts)
          /\ verification_data' = VerificationRecords(full_number_str, latex_parts)
          /\ verification_path' = "verification_TIMESTAMP.txt"
          /\ out_verification' = Append(out_verification,
                                        VerificationFile(request_no, TRUE))
          /\ pc' = "render"
          /\ UNCHANGED <<logged, raised>>
       \/ /\ ~VerificationRaises(full_number_str, latex_parts)
          /\ verification_data' = VerificationRecords(full_number_str, latex_parts)
          /\ verification_path' = "None"
          /\ \/ out_verification' = out_verification
             \/ out_verification' = Append(out_verification,
                                           VerificationFile(request_no, FALSE))
          /\ logged' = logged \cup {"Failed to create verification file"}
          /\ pc' = "render"
          /\ UNCHANGED raised
       \/ /\ verification_data' = <<>>
          /\ verification_path' = "None"
          /\ out_verification' = out_verification
          /\ raised' = Msg("Exception", "create_verification_output failed", "")
          /\ pc' = "raised"
          /\ UNCHANGED logged
    /\ UNCHANGED <<full_number_str, clean_number, has_plus, country_code,
                   main_number, used_formulas, latex_parts, math_lines, fallback_picks,
                   render_result, returned>>
    /\ UNCHANGED <<temp_dir, tool_output, pdflatex_calls, pdftoppm_calls>>
    /\ UNCHANGED <<reg_vars, unit_vars, ui_vars, out_image, request_no>>

\* generate_latex_for_number, lines 298-311: create_verification_output under
\* try/except.  The file is written, or opening or writing it fails (None is
\* returned, a truncated file may remain), or the call raises and the
\* exception is swallowed.
GenVerify ==
    /\ pc = "verify"
    /\ \/ /\ ~VerificationRaises(full_number_str, latex_parts)
          /\ verification_data' = VerificationRecords(full_number_str, latex_parts)
          /\ verification_path' = "verification_TIMESTAMP.txt"
          /\ out_verification' = Append(out_verification,
                                        VerificationFile(request_no, TRUE))
          /\ UNCHANGED logged
       \/ /\ ~VerificationRaises(full_number_str, latex_parts)
          /\ verification_data' = VerificationRecords(full_number_str, latex_parts)
          /\ verification_path' = "None"
          /\ \/ out_verification' = out_verification
             \/ out_verification' = Append(out_verification,
                                           VerificationFile(request_no, FALSE))
          /\ logged' = logged \cup {"Failed to create verification file"}
       \/ /\ verification_data' = <<>>
          /\ verification_path' = "None"
          /\ out_verification' = out_verification
          /\ logged' = logged \cup {"Could not create verification file"}
    /\ pc' = "render"
    /\ UNCHANGED <<full_number_str, clean_number, has_plus, country_code,
                   main_number, used_formulas, latex_parts, math_lines, fallback_picks,
                   render_result, raised, returned>>
    /\ UNCHANGED <<temp_dir, tool_output, pdflatex_calls, pdftoppm_calls>>
    /\ UNCHANGED <<reg_vars, unit_vars, ui_vars, out_image, request_no>>

\* RenderFails that leaves the temporary directory behind
RenderFails_leak(text, detail) ==
    /\ render_result' = <<"None", Msg("msg", text, detail)>>
    /\ temp_dir' = temp_dir
    /\ pc' = "rendered"

\* render_latex_to_png returns <<None, msg>>; the temporary directory is removed
RenderFails(text, detail) ==
    /\ render_result' = <<"None", Msg("msg", text, detail)>>
    /\ temp_dir' = NoTempDir
    /\ pc' = "rendered"

\* render_latex_to_png, lines 372-384: temporary directory and .tex file
RenderWriteTex ==
    /\ pc = "render"
    /\ \/ /\ temp_dir' = [exists |-> TRUE, tex |-> LatexDoc(latex_parts),
                          pdf |-> FALSE, png |-> FALSE]
          /\ pc' = "pdflatex"
          /\ UNCHANGED render_result
       \/ RenderFails("Failed to write .tex: ", "[Errno 28] No space left on device")
    /\ UNCHANGED <<full_number_str, clean_number, has_plus, country_code,
                   main_number, used_formulas, latex_parts, math_lines, fallback_picks,
                   verification_path, verification_data,
                   raised, returned>>
    /\ UNCHANGED <<tool_output, logged, pdflatex_calls, pdftoppm_calls>>
    /\ UNCHANGED <<reg_vars, unit_vars, ui_vars, out_vars>>

\* RenderPdflatex that runs the typesetter a second time after a timeout
RenderPdflatex_retry ==
    /\ pc = "pdflatex"
    /\ pdflatex_calls' = pdflatex_calls + 1
    /\ \/ \* subprocess.run raises TimeoutExpired
          /\ \E d \in Diagnostics : tool_output' = d
          /\ IF pdflatex_calls = 0
             THEN pc' = "pdflatex" /\ UNCHANGED <<temp_dir, render_result>>
             ELSE RenderFails("LaTeX compile error: ", TimeoutText)
          /\ UNCHANGED logged
       \/ \* subprocess.run raises because the tool is missing
          /\ tool_output' = ""
          /\ RenderFails("LaTeX compile error: ", NotFoundText)
          /\ UNCHANGED logged
       \/ \* non-zero return code: stdout and stderr go to the log
          /\ \E d \in Diagnostics :
                /\ tool_output' = d
                /\ logged' = logged \cup {d}
          /\ RenderFails("LaTeX compile error. Check logs for details. Return code: ", "1")
       \/ \* return code 0
          /\ \E d \in Diagnostics : tool_output' = d
          /\ UNCHANGED logged
          /\ \/ /\ temp_dir' = [temp_dir EXCEPT !.pdf = TRUE]
                /\ pc' = "pdftoppm"
                /\ UNCHANGED render_result
             \/ RenderFails("PDF not generated.", "")
    /\ UNCHANGED <<full_number_str, clean_number, has_plus, country_code,
                   main_number, used_formulas, latex_parts, math_lines, fallback_picks,
                   verification_path, verification_data,
                   raised, returned>>
    /\ UNCHANGED pdftoppm_calls
    /\ UNCHANGED <<reg_vars, unit_vars, ui_vars, out_vars>>

\* render_latex_to_png, lines 386-410: the typesetter and the PDF check
RenderPdflatex ==
    /\ pc = "pdflatex"
    /\ pdflatex_calls' = pdflatex_calls + 1
    /\ \/ \* subprocess.run raises TimeoutExpired
          /\ \E d \in Diagnostics : tool_output' = d
          /\ RenderFails("LaTeX compile error: ", TimeoutText)
          /\ UNCHANGED logged
       \/ \* subprocess.run raises because the tool is missing
          /\ tool_output' = ""
          /\ RenderFails("LaTeX compile error: ", NotFoundText)
          /\ UNCHANGED logged
       \/ \* non-zero return code: stdout and stderr go to the log
          /\ \E d \in Diagnostics :
                /\ tool_output' = d
                /\ logged' = logged \cup {d}
          /\ RenderFails("LaTeX compile error. Check logs for details. Return code: ", "1")
       \/ \* return code 0
          /\ \E d \in Diagnostics : tool_output' = d
          /\ UNCHANGED logged
          /\ \/ /\ temp_dir' = [temp_dir EXCEPT !.pdf = TRUE]
                /\ pc' = "pdftoppm"
                /\ UNCHANGED render_result
             \/ RenderFails("PDF not generated.", "")
    /\ UNCHANGED <<full_number_str, clean_number, has_plus, country_code,
                   main_number, used_formulas, latex_parts, math_lines, fallback_picks,
                   verification_path, verification_data,
                   raised, returned>>
    /\ UNCHANGED pdftoppm_calls
    /\ UNCHANGED <<reg_vars, unit_vars, ui_vars, out_vars>>

\* RenderPdftoppm whose rasterizer writes into the output directory
RenderPdftoppm_direct ==
    /\ pc = "pdftoppm"
    /\ pdftoppm_calls' = pdftoppm_calls + 1
    /\ out_image' = [state |-> "rendered", request |-> request_no]
    /\ \/ /\ \E d \in Diagnostics : tool_output' = d
          /\ \/ RenderFails("pdftoppm error: ", TimeoutText)
             \/ RenderFails("pdftoppm error: ", ExitStatusText)
       \/ /\ tool_output' = ""
          /\ RenderFails("pdftoppm error: ", NotFoundText)
       \/ /\ tool_output' = ""
          /\ \/ /\ temp_dir' = [temp_dir EXCEPT !.png = TRUE]
                /\ pc' = "copy"
                /\ UNCHANGED render_result
             \/ RenderFails("PNG not generated.", "")
    /\ UNCHANGED <<full_number_str, clean_number, has_plus, country_code,
                   main_number, used_formulas, latex_parts, math_lines, fallback_picks,
                   verification_path, verification_data,
                   raised, returned>>
    /\ UNCHANGED <<logged, pdflatex_calls>>
    /\ UNCHANGED <<reg_vars, unit_vars, ui_vars, out_verification, request_no>>

\* render_latex_to_png, lines 412-422: the rasterizer and the PNG check
RenderPdftoppm ==
    /\ pc = "pdftoppm"
    /\ pdftoppm_calls' = pdftoppm_calls + 1
    /\ \/ /\ \E d \in Diagnostics : tool_output' = d
          /\ \/ RenderFails("pdftoppm error: ", TimeoutText)
             \/ RenderFails("pdftoppm error: ", ExitStatusText)
       \/ /\ tool_output' = ""
          /\ RenderFails("pdftoppm error: ", NotFoundText)
       \/ /\ tool_output' = ""
          /\ \/ /\ temp_dir' = [temp_dir EXCEPT !.png = TRUE]
                /\ pc' = "copy"
                /\ UNCHANGED render_result
             \/ RenderFails("PNG not generated.", "")
    /\ UNCHANGED <<full_number_str, clean_number, has_plus, country_code,
                   main_number, used_formulas, latex_parts, math_lines, fallback_picks,
                   verification_path, verification_data,
                   raised, returned>>
    /\ UNCHANGED <<logged, pdflatex_calls>>
    /\ UNCHANGED <<reg_vars, unit_vars, ui_vars, out_vars>>

\* render_latex_to_png, lines 424-426: shutil.copy to the output directory.
\* When the copy raises, the exception leaves render_latex_to_png and
\* generate_latex_for_number; the destination is untouched or truncated.
RenderCopy ==
    /\ pc = "copy"
    /\ temp_dir' = NoTempDir
    /\ \/ /\ out_image' = [state |-> "rendered", request |-> request_no]
          /\ render_result' = <<"Dialogorithm_Contact.png", Msg("msg", "Success", "")>>
          /\ pc' = "rendered"
          /\ UNCHANGED raised
       \/ /\ \/ out_image' = out_image
             \/ out_image' = [state |-> "truncated", request |-> request_no]
          /\ raised' = Msg("OSError", "[Errno 28] No space left on device", "")
          /\ pc' = "raised"
          /\ UNCHANGED render_result
    /\ UNCHANGED <<full_number_str, clean_number, has_plus, country_code,
                   main_number, used_formulas, latex_parts, math_lines, fallback_picks,
                   verification_path, verification_data,
                   returned>>
    /\ UNCHANGED <<tool_output, logged, pdflatex_calls, pdftoppm_calls>>
    /\ UNCHANGED <<reg_vars, unit_vars, ui_vars, out_verification, request_no>>

\* GenFinish that returns the image path without testing it
GenFinish_noraise ==
    /\ pc = "rendered"
    /\ returned' = "Dialogorithm_Contact.png"
    /\ pc' = "returned"
    /\ UNCHANGED raised
    /\ UNCHANGED <<full_number_str, clean_number, has_plus, country_code,
                   main_number, used_formulas, latex_parts, math_lines, fallback_picks,
                   verification_path, verification_data, render_result>>
    /\ UNCHANGED <<reg_vars, unit_vars, ui_vars, render_vars, out_vars>>

\* GenFinish that raises a fixed message instead of msg
GenFinish_fixedmsg ==
    /\ pc = "rendered"
    /\ IF render_result[1] = "None"
       THEN /\ raised' = Msg("RuntimeError", "Rendering failed", "")
            /\ pc' = "raised"
            /\ UNCHANGED returned
       ELSE /\ returned' = render_result[1]
            /\ pc' = "returned"
            /\ UNCHANGED raised
    /\ UNCHANGED <<full_number_str, clean_number, has_plus, country_code,
                   main_number, used_formulas, latex_parts, math_lines, fallback_picks,
                   verification_path, verification_data, render_result>>
    /\ UNCHANGED <<reg_vars, unit_vars, ui_vars, render_vars, out_vars>>

\* generate_latex_for_number, lines 314-322: raise RuntimeError(msg) or return
GenFinish ==
    /\ pc = "rendered"
    /\ IF render_result[1] = "None"
       THEN /\ raised' = Msg("RuntimeError", render_result[2].text,
                             render_result[2].detail)
            /\ pc' = "raised"
            /\ UNCHANGED returned
       ELSE /\ returned' = render_result[1]
            /\ pc' = "returned"
            /\ UNCHANGED raised
    /\ UNCHANGED <<full_number_str, clean_number, has_plus, country_code,
                   main_number, used_formulas, latex_parts, math_lines, fallback_picks,
                   verification_path, verification_data,
                   render_result>>
    /\ UNCHANGED <<reg_vars, unit_vars, ui_vars, render_vars, out_vars>>

-----------------------------------------------------------------------------
(* Inputs of generate_latex_for_number                                     *)

\* most digits in an input string
MaxInputDigits == 12

\* the subscriber digits 5551234567 repeated
SubscriberCycle == <<"5", "5", "5", "1", "2", "3", "4", "5", "6", "7">>

\* n digits: a lead followed by the subscriber cycle
DigitBody(lead, n) ==
    [i \in 1..n |-> IF i <= Len(lead) THEN lead[i]
                    ELSE SubscriberCycle[((i - Len(lead) - 1) % 10) + 1]]

InputLeads == {<<>>, <<"1">>, <<"4", "4">>}

InputPrefixes == {<<>>, <<"+">>, <<" ", "+">>, <<" ">>}

\* inputs that are not a prefix followed by digits: separators between the
\* digits, a three-digit country code before ten digits, a non-ASCII digit,
\* no digit at all, a '+' that is not leading
OtherInputs == {
    <<"+", "1", " ", "(", "5", "5", "5", ")", " ", "1", "2", "3", "-", "4", "5", "6", "7">>,
    <<"+", "2", "2", "0", "5", "5", "5", "1", "2", "3", "4", "5", "6", "7">>,
    <<"5", "+", "5">>,
    <<"5", SuperscriptTwo, "5">>,
    <<"(", "-", ")">>,
    <<"\t", " ">> }

GenInputs ==
    {p \o DigitBody(l, n) : <<p, l, n>> \in InputPrefixes \X InputLeads \X (0..MaxInputDigits)}
    \cup OtherInputs

ComposeInit ==
    /\ RegIdle
    /\ pc = "call"
    /\ full_number_str \in GenInputs
    /\ NoCall
    /\ UiStart
    /\ UnitIdle
    /\ out_image = NoImage
    /\ out_verification = <<>>
    /\ request_no = 1

ComposeNext == GenBegin \/ GenPick \/ GenWrap

SpecCompose == ComposeInit /\ [][ComposeNext]_vars

\* most digits in an input of a request followed through rendering
MaxPipelineDigits == 3

PipelineInputs ==
    {p \o DigitBody(<<>>, n) : <<p, n>> \in InputPrefixes \X (0..MaxPipelineDigits)}
    \cup OtherInputs

Init ==
    /\ RegIdle
    /\ pc = "call"
    /\ full_number_str \in PipelineInputs
    /\ NoCall
    /\ UiStart
    /\ UnitIdle
    /\ out_image \in {NoImage, PriorImage}
    /\ out_verification = <<>>
    /\ request_no = 1

Next ==
    \/ GenBegin
    \/ GenPick
    \/ GenWrap
    \/ GenVerify
    \/ RenderWriteTex
    \/ RenderPdflatex
    \/ RenderPdftoppm
    \/ RenderCopy
    \/ GenFinish

Spec == Init /\ [][Next]_vars

-----------------------------------------------------------------------------
(* phone_formats.py: the geography dataset and the label lookup            *)

\* entries of COUNTRIES_BY_CONTINENT (labels without their flag): one per
\* digit limit 4, 6, 10 and 11, among them the single-subregion continent
COUNTRIES_BY_CONTINENT == {
    [continent |-> "Africa", subregion |-> "Southern Africa", label |-> "Saint Helena",
     format |-> <<"+", "2", "9", "0", " ", "X", "X", "X", "X">>],
    [continent |-> "Americas", subregion |-> "Northern America", label |-> "United States",
     format |-> <<"+", "1", " ", "(", "X", "X", "X", ")", " ", "X", "X", "X", "-", "X", "X", "X", "X">>],
    [continent |-> "Europe", subregion |-> "Northern Europe", label |-> "United Kingdom",
     format |-> <<"+", "4", "4", " ", "X", "X", "X", "X", " ", "X", "X", "X", "X", "X", "X">>],
    [continent |-> "Europe", subregion |-> "Western Europe", label |-> "France",
     format |-> <<"+", "3", "3", " ", "X", " ", "X", "X", " ", "X", "X", " ", "X", "X", " ", "X", "X">>],
    [continent |-> "Antarctica", subregion |-> "Antarctica", label |-> "Antarctica",
     format |-> <<"+", "6", "7", "2", " ", "X", "X", "X", " ", "X", "X", "X">>] }

\* ALL_COUNTRIES.get(label): the format example, or the empty string
FormatOf(label) ==
    IF \E e \in COUNTRIES_BY_CONTINENT : e.label = label
    THEN (CHOOSE e \in COUNTRIES_BY_CONTINENT : e.label = label).format
    ELSE <<>>

\* the value of a decimal character
DigitValue(c) == CHOOSE v \in 0..9 : AsciiDigits[v + 1] = c

\* int(s) of a string of decimal digits
RECURSIVE StrToInt(_)
StrToInt(str) ==
    IF Len(str) = 0 THEN 0
    ELSE 10 * StrToInt(SubSeq(str, 1, Len(str) - 1)) + DigitValue(str[Len(str)])

\* str(n) of a natural number
RECURSIVE IntToStr(_)
IntToStr(n) ==
    IF n < 10 THEN <<AsciiDigits[n + 1]>>
    ELSE Append(IntToStr(n \div 10), AsciiDigits[(n % 10) + 1])

\* the longest prefix of a string made of decimal digits: the group of \d+
RECURSIVE LeadingDigits(_)
LeadingDigits(str) ==
    IF Len(str) > 0 /\ str[1] \in AsciiDigitSet
    THEN <<str[1]>> \o LeadingDigits(Tail(str))
    ELSE <<>>

\* the country code is None
NoCode == -1

\* extract_country_code_from_label(label): the code after the '+' of the
\* format example, or None
extract_country_code_from_label(label) ==
    LET fmt == FormatOf(label) IN
    IF Len(fmt) = 0 THEN NoCode
    ELSE IF fmt[1] # "+" \/ Len(LeadingDigits(Tail(fmt))) = 0 THEN NoCode
    ELSE StrToInt(LeadingDigits(Tail(fmt)))

\* get_continent_structure().get(continent, [])
SubregionsOf(continent) ==
    {e.subregion : e \in {x \in COUNTRIES_BY_CONTINENT : x.continent = continent}}

\* get_countries_by_continent_and_subregion(continent, subregion)
get_countries_by_continent_and_subregion(continent, subregion) ==
    LET known == {e.continent : e \in COUNTRIES_BY_CONTINENT}
        of_continent == {e \in COUNTRIES_BY_CONTINENT : e.continent = continent}
    IN  IF continent # "" /\ continent \notin known THEN {}
        ELSE IF continent = "Antarctica" THEN {e.label : e \in of_continent}
        ELSE IF continent = "" THEN {e.label : e \in COUNTRIES_BY_CONTINENT}
        ELSE IF subregion = "" THEN {e.label : e \in of_continent}
        ELSE {e.label : e \in {x \in of_continent : x.subregion = subregion}}

-----------------------------------------------------------------------------
(* Country browsing: get_countries_by_continent_and_subregion applied to   *)
(* one pair of keys                                                        *)

\* the continent keys of the dataset
ContinentKeys == {e.continent : e \in COUNTRIES_BY_CONTINENT}

\* the subregion keys of the dataset under one continent
SubregionKeys(continent) == SubregionsOf(continent)

\* continent arguments tried: none, the keys of the dataset, the combobox
\* entry that is not a key, and two other strings
BrowseContinents == {"", "All Continents", "Atlantis", "europe"} \cup ContinentKeys

\* subregion arguments tried: none, the keys of the dataset and two other
\* strings
BrowseSubregions ==
    {"", "Nowhere", "western europe"} \cup {e.subregion : e \in COUNTRIES_BY_CONTINENT}

BrowseInit ==
    /\ reg_pc = "idle"
    /\ reg_digits = <<>>
    /\ reg_code = 0
    /\ reg_display = NoResult
    /\ reg_valid = "none"
    /\ reg_limit = NoLimit
    /\ browse_pc = "ready"
    /\ browse_continent \in BrowseContinents
    /\ browse_subregion \in BrowseSubregions
    /\ browse_result = {}
    /\ GenIdle
    /\ UiStart
    /\ UnitIdle

BrowseCountries ==
    /\ browse_pc = "ready"
    /\ browse_pc' = "done"
    /\ browse_result' =
           get_countries_by_continent_and_subregion(browse_continent, browse_subregion)
    /\ UNCHANGED <<browse_continent, browse_subregion>>
    /\ UNCHANGED <<reg_pc, reg_digits, reg_code, reg_display, reg_valid, reg_limit>>
    /\ UNCHANGED <<gen_vars, render_vars, out_vars, ui_vars, unit_vars>>

BrowseNext == BrowseCountries

SpecBrowse == BrowseInit /\ [][BrowseNext]_vars

-----------------------------------------------------------------------------
(* dialogorithm.py: the handlers of the form                               *)

\* most accepted Generate requests followed
MaxRequests == 1

\* no generate_latex_for_number call is running: the event loop is free
UiFree == pc = "idle"

\* on_number_change for a new value of local_number_var: the value the field
\* ends with and the text of formatted_display
NumberChange(value, country, display) ==
    LET code == extract_country_code_from_label(country)
        clean_value == StripNonDigits(value)
    IN  IF country = "" THEN <<value, display>>
        ELSE IF code \notin {NoCode, 0} /\ Len(clean_value) > 0
        THEN <<clean_value, <<"+">> \o IntToStr(code) \o <<" ">>
                            \o format_display_number(clean_value, code)>>
        ELSE <<clean_value, <<>>>>

\* KeyValidate that counts against 15 whatever code the label shows
KeyValidate_default15(char, actual_current, label_text) ==
    IF ~StrIsDigit(char) THEN FALSE
    ELSE Len(actual_current \o char) <= 15

\* the validate command of create_validation for an inserted or deleted text
KeyValidate(char, actual_current, label_text) ==
    IF ~StrIsDigit(char) THEN FALSE
    ELSE IF label_text = <<"+">> THEN Len(actual_current \o char) <= 15
    ELSE Len(actual_current \o char) <= get_digit_limit(StrToInt(Tail(label_text)))

on_continent_select(continent) ==
    /\ UiFree
    /\ continent_var' = continent
    /\ subregion_var' = ""
    /\ country_var' = ""
    /\ country_values' = {}
    /\ entry_state' = "disabled"
    /\ country_code_label' = <<"+">>
    /\ formatted_display' = <<>>
    /\ local_number_var' = <<>>
    /\ subregion_values' =
            IF continent = "All Continents"
            THEN {e.subregion : e \in COUNTRIES_BY_CONTINENT}
            ELSE SubregionsOf(continent)
    /\ ui_message' = "none"
    /\ UNCHANGED <<reg_vars, unit_vars, gen_vars, render_vars, out_vars>>

on_subregion_select(subregion) ==
    /\ UiFree
    /\ subregion \in subregion_values
    /\ subregion_var' = subregion
    /\ country_var' = ""
    /\ entry_state' = "disabled"
    /\ country_code_label' = <<"+">>
    /\ formatted_display' = <<>>
    /\ local_number_var' = <<>>
    /\ country_values' = get_countries_by_continent_and_subregion(continent_var, subregion)
    /\ ui_message' = "none"
    /\ UNCHANGED <<continent_var, subregion_values>>
    /\ UNCHANGED <<reg_vars, unit_vars, gen_vars, render_vars, out_vars>>

on_country_select(country) ==
    /\ UiFree
    /\ country \in country_values
    /\ country_var' = country
    /\ LET code == extract_country_code_from_label(country) IN
       IF code # NoCode
       THEN /\ country_code_label' = <<"+">> \o IntToStr(code)
            /\ entry_state' = "normal"
       ELSE /\ country_code_label' = <<"+">>
            /\ entry_state' = "disabled"
    /\ local_number_var' = <<>>
    /\ formatted_display' = <<>>
    /\ ui_message' = "none"
    /\ UNCHANGED <<continent_var, subregion_var, subregion_values, country_values>>
    /\ UNCHANGED <<reg_vars, unit_vars, gen_vars, render_vars, out_vars>>

\* characters a key press may insert: the next digit of the run 1 2 3 ... 9 0
\* and a letter
KeyChars == {AsciiDigits[((Len(local_number_var) + 1) % 10) + 1], "a"}

\* a key inserts a character at the end of the local-number field: the
\* validate command, then the write trace on_number_change
KeyInsert(char) ==
    /\ UiFree
    /\ entry_state = "normal"
    /\ KeyValidate(<<char>>, local_number_var, country_code_label)
    /\ LET r == NumberChange(Append(local_number_var, char), country_var,
                             formatted_display)
       IN  /\ local_number_var' = r[1]
           /\ formatted_display' = r[2]
    /\ ui_message' = "none"
    /\ UNCHANGED <<continent_var, subregion_var, country_var, subregion_values,
                   country_values, country_code_label, entry_state>>
    /\ UNCHANGED <<reg_vars, unit_vars, gen_vars, render_vars, out_vars>>

\* BackSpace at the end of the field: the validate command is called with
\* the deleted character, then on_number_change
KeyDelete ==
    /\ UiFree
    /\ entry_state = "normal"
    /\ Len(local_number_var) > 0
    /\ KeyValidate(<<local_number_var[Len(local_number_var)]>>, local_number_var,
                   country_code_label)
    /\ LET r == NumberChange(SubSeq(local_number_var, 1, Len(local_number_var) - 1),
                             country_var, formatted_display)
       IN  /\ local_number_var' = r[1]
           /\ formatted_display' = r[2]
    /\ ui_message' = "none"
    /\ UNCHANGED <<continent_var, subregion_var, country_var, subregion_values,
                   country_values, country_code_label, entry_state>>
    /\ UNCHANGED <<reg_vars, unit_vars, gen_vars, render_vars, out_vars>>

\* the number on_generate passes to generate_latex_for_number
FullInternational(code, local_part) ==
    <<"+">> \o IntToStr(code) \o <<" ">> \o format_display_number(local_part, code)

\* on_generate with a minimum of three digits
on_generate_min3 ==
    /\ UiFree
    /\ LET code == extract_country_code_from_label(country_var)
           local_part == StripNonDigits(local_number_var)
       IN  IF country_var = ""
           THEN /\ ui_message' = "Please select a country first."
                /\ UNCHANGED <<pc, full_number_str, request_no>>
           ELSE IF Len(local_part) < 3
           THEN /\ ui_message' = "Please enter a valid local number with at least 4 digits."
                /\ UNCHANGED <<pc, full_number_str, request_no>>
           ELSE IF code \in {NoCode, 0}
           THEN /\ ui_message' = "Please select a country and enter a phone number."
                /\ UNCHANGED <<pc, full_number_str, request_no>>
           ELSE IF Len(local_part) > get_digit_limit(code)
           THEN /\ ui_message' = "Phone number too long."
                /\ UNCHANGED <<pc, full_number_str, request_no>>
           ELSE /\ request_no < MaxRequests
                /\ ui_message' = "none"
                /\ full_number_str' = FullInternational(code, local_part)
                /\ request_no' = request_no + 1
                /\ pc' = "call"
    /\ UNCHANGED <<clean_number, has_plus, country_code, main_number,
                   used_formulas, latex_parts, math_lines, fallback_picks,
                   verification_path, verification_data, render_result, raised, returned>>
    /\ UNCHANGED <<continent_var, subregion_var, country_var, subregion_values,
                   country_values, country_code_label, entry_state,
                   local_number_var, formatted_display>>
    /\ UNCHANGED <<reg_vars, unit_vars, render_vars, out_image, out_verification>>

\* on_generate, lines 334-371: the checks, and the call when they pass
on_generate ==
    /\ UiFree
    /\ LET code == extract_country_code_from_label(country_var)
           local_part == StripNonDigits(local_number_var)
       IN  IF country_var = ""
           THEN /\ ui_message' = "Please select a country first."
                /\ UNCHANGED <<pc, full_number_str, request_no>>
           ELSE IF Len(local_part) < 4
           THEN /\ ui_message' = "Please enter a valid local number with at least 4 digits."
                /\ UNCHANGED <<pc, full_number_str, request_no>>
           ELSE IF code \in {NoCode, 0}
           THEN /\ ui_message' = "Please select a country and enter a phone number."
                /\ UNCHANGED <<pc, full_number_str, request_no>>
           ELSE IF Len(local_part) > get_digit_limit(code)
           THEN /\ ui_message' = "Phone number too long."
                /\ UNCHANGED <<pc, full_number_str, request_no>>
           ELSE /\ request_no < MaxRequests
                /\ ui_message' = "none"
                /\ full_number_str' = FullInternational(code, local_part)
                /\ request_no' = request_no + 1
                /\ pc' = "call"
    /\ UNCHANGED <<clean_number, has_plus, country_code, main_number,
                   used_formulas, latex_parts, math_lines, fallback_picks,
                   verification_path, verification_data, render_result, raised, returned>>
    /\ UNCHANGED <<continent_var, subregion_var, country_var, subregion_values,
                   country_values, country_code_label, entry_state,
                   local_number_var, formatted_display>>
    /\ UNCHANGED <<reg_vars, unit_vars, render_vars, out_image, out_verification>>

\* on_generate, lines 372-375: the message box after the call returned or
\* raised; the locals of the call are gone
on_generate_done ==
    /\ pc \in {"returned", "raised"}
    /\ ui_message' = IF pc = "returned" THEN "Success" ELSE "Failed to generate image"
    /\ pc' = "idle"
    /\ full_number_str' = <<>>
    /\ clean_number' = <<>>
    /\ has_plus' = FALSE
    /\ country_code' = <<>>
    /\ main_number' = <<>>
    /\ used_formulas' = {}
    /\ latex_parts' = <<>>
    /\ math_lines' = <<>>
    /\ fallback_picks' = {}
    /\ verification_path' = "None"
    /\ verification_data' = <<>>
    /\ render_result' = <<"None", None>>
    /\ raised' = None
    /\ returned' = "None"
    /\ temp_dir' = NoTempDir
    /\ tool_output' = ""
    /\ logged' = {}
    /\ pdflatex_calls' = 0
    /\ pdftoppm_calls' = 0
    /\ UNCHANGED <<continent_var, subregion_var, country_var, subregion_values,
                   country_values, country_code_label, entry_state,
                   local_number_var, formatted_display>>
    /\ UNCHANGED <<reg_vars, unit_vars, out_vars>>

\* the values of the continent combobox
ContinentOptions == {"All Continents"} \cup {e.continent : e \in COUNTRIES_BY_CONTINENT}

UiInit ==
    /\ RegIdle
    /\ GenIdle
    /\ UiStart
    /\ UnitIdle

UiNext ==
    \/ \E continent \in ContinentOptions : on_continent_select(continent)
    \/ \E subregion \in subregion_values : on_subregion_select(subregion)
    \/ \E country \in country_values : on_country_select(country)
    \/ \E char \in KeyChars : KeyInsert(char)
    \/ KeyDelete
    \/ on_generate
    \/ on_generate_done
    \/ GenBegin
    \/ GenPick
    \/ GenWrap
    \/ GenVerify
    \/ RenderWriteTex
    \/ RenderPdflatex
    \/ RenderPdftoppm
    \/ RenderCopy
    \/ GenFinish

SpecUI == UiInit /\ [][UiNext]_vars

-----------------------------------------------------------------------------
(* Properties of the registry, checked under SpecReg                       *)

\* every character of s is a digit (the empty string included)
AllDigits(s) == \A i \in 1..Len(s) : IsDigit(s[i])

\* C1: for every digit string D and calling code C with len(D) <= digit_limit(C),
\* removing the non-digit characters of format_display(D, C) gives exactly D.
C1_RoundTrip ==
    (/\ reg_display # NoResult
     /\ AllDigits(reg_digits)
     /\ Len(reg_digits) <= get_digit_limit(reg_code))
    => StripNonDigits(reg_display) = reg_digits

\* C3: validate(s, code) is false when s contains a non-digit character, false
\* when len(s) > digit_limit(code), and true for every other s.
C3_ValidateExactly ==
    reg_valid # "none" =>
        (reg_valid = "True" <=>
            (AllDigits(reg_digits) /\ Len(reg_digits) <= get_digit_limit(reg_code)))

-----------------------------------------------------------------------------
(* Properties of the composer, checked under SpecCompose                   *)

\* the number of times digit d occurs in a string
Occurrences(d, str) == Cardinality({i \in 1..Len(str) : str[i] = d})

\* the digit tokens emitted so far for digit d are pairwise different
DistinctFor(d) ==
    LET tokens == DigitTokens(latex_parts) IN
    \A i, j \in 1..Len(tokens) :
        (i # j /\ tokens[i].c = d /\ tokens[j].c = d) => tokens[i] # tokens[j]

\* no pick for digit d returned the draw made after the attempts ran out
NoFallbackFor(d) ==
    \A p \in fallback_picks : (country_code \o main_number)[p] # d

\* the first character that is not white space is a '+'
LeadingPlus(str) ==
    \E i \in 1..Len(str) : str[i] = "+" /\ \A j \in 1..(i - 1) : IsSpace(str[j])

\* the last n characters of a string
LastChars(str, n) == SubSeq(str, Len(str) - n + 1, Len(str))

\* C2: for an input with at least one digit, the digits for which digit
\* tokens were emitted, in emission order (country code, then subscriber),
\* are exactly the cleaned digit sequence of the input.
C2_DigitFidelity ==
    pc = "verify" =>
        /\ DigitTokenValues(latex_parts) = StripNonDigits(full_number_str)
        /\ DigitTokenValues(latex_parts) = country_code \o main_number

C2_Witness ==
    /\ pc = "verify"
    /\ has_plus
    /\ Len(country_code) = 2
    /\ Len(main_number) = 10
    /\ DigitTokenValues(latex_parts) = StripNonDigits(full_number_str)

\* C4 as stated: if a digit has at least N distinct templates and occurs at
\* most N times in the number, no two expressions emitted for it are
\* identical, whatever the random draws.
C4_UniqueForEveryDraw ==
    \A d \in AsciiDigitSet :
        Cardinality(Templates(d)) >= Occurrences(d, StripNonDigits(full_number_str))
        => DistinctFor(d)

\* C4 amended: the same, provided no pick for that digit ran out of attempts
\* and returned the last-resort draw.
C4_UniqueUnlessFallback ==
    \A d \in AsciiDigitSet :
        (/\ Cardinality(Templates(d)) >= Occurrences(d, StripNonDigits(full_number_str))
         /\ NoFallbackFor(d))
        => DistinctFor(d)

C4_Witness ==
    /\ pc = "verify"
    /\ \E d \in AsciiDigitSet :
        /\ Occurrences(d, clean_number) >= 2
        /\ Cardinality(Templates(d)) >= Occurrences(d, clean_number)
        /\ NoFallbackFor(d)
        /\ DistinctFor(d)

\* C5: with a leading '+' and exactly 11 digits starting with 1 the country
\* code is 1 and the subscriber the other 10 digits; with a leading '+' and
\* more than 10 digits the subscriber is the last 10 digits and the country
\* code what precedes them; otherwise the country code is empty and the
\* subscriber is the whole cleaned sequence.  Country code followed by
\* subscriber is always the cleaned sequence.
C5_Segmentation ==
    pc \in {"compose", "verify"} =>
        LET clean == StripNonDigits(full_number_str)
            plus == LeadingPlus(full_number_str)
        IN  /\ (plus /\ Len(clean) = 11 /\ clean[1] = "1")
                => (country_code = <<"1">> /\ main_number = LastChars(clean, 10))
            /\ (plus /\ Len(clean) > 10)
                => /\ main_number = LastChars(clean, 10)
                   /\ country_code = SubSeq(clean, 1, Len(clean) - 10)
            /\ (~plus \/ Len(clean) <= 10)
                => (country_code = <<>> /\ main_number = clean)
            /\ country_code \o main_number = clean

C5_Witness ==
    /\ pc = "verify"
    /\ LeadingPlus(full_number_str)
    /\ Len(StripNonDigits(full_number_str)) = 12
    /\ country_code = <<"4", "4">>
    /\ Len(main_number) = 10

-----------------------------------------------------------------------------
(* Properties of a generation request, checked under Spec                  *)

\* the current request has written nothing to the output directory
NothingWritten ==
    /\ out_image.request # request_no
    /\ \A i \in 1..Len(out_verification) : out_verification[i].request # request_no

\* C6: an input that is empty, blank or without any digit fails at once with
\* an input error: nothing is picked, no verification file is written, the
\* renderer is never entered and the output directory is untouched.
C6_NoDigitsFailsFast ==
    (pc \notin {"idle", "call"} /\ Len(StripNonDigits(full_number_str)) = 0) =>
        /\ pc = "raised"
        /\ raised.type = "ValueError"
        /\ latex_parts = <<>>
        /\ used_formulas = {}
        /\ temp_dir = NoTempDir
        /\ pdflatex_calls = 0
        /\ pdftoppm_calls = 0
        /\ NothingWritten

C6_Witness ==
    /\ pc = "raised"
    /\ raised.type = "ValueError"
    /\ Len(Strip(full_number_str)) > 0
    /\ Len(StripNonDigits(full_number_str)) = 0
    /\ out_image = PriorImage

\* a step of the rendering collaborator timed out
TimedOut == render_result[2].detail = TimeoutText

\* C7: when a rendering step times out the request fails with a render
\* error whose message names the timeout, and the image in the output
\* directory is neither created nor overwritten.
C7_TimeoutFailsWithoutImage ==
    TimedOut =>
        /\ pc \in {"rendered", "raised"}
        /\ returned = "None"
        /\ pc = "raised" => (raised.type = "RuntimeError" /\ raised.detail = TimeoutText)
        /\ out_image.request # request_no

C7_Witness ==
    /\ pc = "raised"
    /\ raised.type = "RuntimeError"
    /\ raised.detail = TimeoutText
    /\ pdftoppm_calls = 1
    /\ out_image = PriorImage

\* generate_latex_for_number raised because rendering failed
RenderFailed == pc = "raised" /\ raised.type = "RuntimeError"

\* C8 as stated: on every rendering failure the propagated error carries the
\* external tool's captured output verbatim.
C8_ErrorCarriesToolOutput ==
    (RenderFailed /\ tool_output # "") => raised.detail = tool_output

\* C8 amended: the propagated error carries the failure reason returned by
\* render_latex_to_png (a fixed description with the return code or the
\* exception text), never the tool's captured output; after a non-zero
\* typesetter exit that output is in the log.
C8_ErrorCarriesReason ==
    RenderFailed =>
        /\ render_result[1] = "None"
        /\ raised.text = render_result[2].text
        /\ raised.detail = render_result[2].detail
        /\ raised.text # ""
        /\ raised.detail \notin Diagnostics
        /\ raised.detail = "1" => tool_output \in logged

C8_Witness ==
    /\ RenderFailed
    /\ raised.detail = "1"
    /\ tool_output \in Diagnostics
    /\ tool_output \in logged

\* C9: a failure to produce the verification file, raised or returned as no
\* path, never aborts the request: the renderer is entered with the document
\* composed before, only rendering can fail the request, and the image path
\* is returned when rendering succeeds.
C9_VerificationFailureNotFatal ==
    (/\ pc \in {"render", "pdflatex", "pdftoppm", "copy", "rendered", "raised", "returned"}
     /\ Len(clean_number) > 0
     /\ verification_path = "None") =>
        /\ temp_dir.exists => temp_dir.tex = LatexDoc(latex_parts)
        /\ pc = "raised" =>
            \/ raised.type = "OSError" /\ pdftoppm_calls = 1
            \/ /\ raised.type = "RuntimeError"
               /\ render_result[1] = "None"
               /\ render_result[2] # None
        /\ render_result[1] # "None" =>
            /\ pc \in {"rendered", "returned"}
            /\ out_image = [state |-> "rendered", request |-> request_no]
            /\ pc = "returned" => returned = render_result[1]

C9_Witness ==
    /\ pc = "returned"
    /\ verification_path = "None"
    /\ "Could not create verification file" \in logged
    /\ returned = "Dialogorithm_Contact.png"
    /\ out_image = [state |-> "rendered", request |-> request_no]

-----------------------------------------------------------------------------
(* Properties of the form, under SpecUI                                    *)

\* the texts on_generate shows with messagebox.showwarning
ValidationWarnings ==
    {"Please select a country first.",
     "Please enter a valid local number with at least 4 digits.",
     "Please select a country and enter a phone number.",
     "Phone number too long."}

\* the form holds a country with a calling code and between 4 and
\* digit_limit(code) local digits
FormAcceptable ==
    LET code == extract_country_code_from_label(country_var)
        local_part == StripNonDigits(local_number_var)
    IN  /\ country_var # ""
        /\ code \notin {NoCode, 0}
        /\ Len(local_part) >= 4
        /\ Len(local_part) <= get_digit_limit(code)

\* C10: Generate passes a number to the composer only when a country with a
\* calling code is selected and the local digits number at least 4 and at
\* most digit_limit(code); in every other case it shows a validation
\* warning, starts no call of generate_latex_for_number and leaves the
\* output directory as it was.
C10_GenerateGate ==
    [][ /\ (pc = "idle" /\ pc' # "idle") =>
                /\ FormAcceptable
                /\ pc' = "call"
                /\ full_number_str' =
                       FullInternational(extract_country_code_from_label(country_var),
                                         StripNonDigits(local_number_var))
        /\ (pc = "idle" /\ ~FormAcceptable) =>
                /\ pc' = "idle"
                /\ UNCHANGED <<out_image, out_verification, request_no>>
                /\ UNCHANGED <<full_number_str, latex_parts, temp_dir>>
        /\ (on_generate /\ ~FormAcceptable) => ui_message' \in ValidationWarnings
        /\ (on_generate /\ FormAcceptable) => pc' = "call"
      ]_vars

\* Generate was pressed with exactly digit_limit(code) digits in the field
\* and the call has started
C10_Witness ==
    /\ pc = "call"
    /\ country_var # ""
    /\ Len(local_number_var) = get_digit_limit(extract_country_code_from_label(country_var))
    /\ Len(full_number_str) > 0

-----------------------------------------------------------------------------
(* Properties of the digit-limit lookup, under SpecLimit                   *)

\* C11: get_digit_limit returns a positive integer for every calling code
\* that is a key of the table, the table's value for it, and exactly 15 for
\* every code that is not a key; the lookup has no failing outcome.
C11_DigitLimit ==
    reg_limit # NoLimit =>
        /\ reg_limit \in Nat
        /\ reg_limit > 0
        /\ reg_code \in TableCodes => <<reg_code, reg_limit>> \in LOCAL_DIGIT_LIMITS_BY_CODE
        /\ reg_code \notin TableCodes => reg_limit = 15

\* the limit of a code outside the table has been looked up
C11_Witness ==
    /\ reg_code \notin TableCodes
    /\ reg_limit # NoLimit

-----------------------------------------------------------------------------
(* Properties of the generic grouping, under SpecReg                       *)

\* the lengths of the space-separated groups of a string
RECURSIVE GroupLengths(_, _)
GroupLengths(str, run) ==
    IF Len(str) = 0 THEN <<run>>
    ELSE IF Head(str) = " " THEN <<run>> \o GroupLengths(Tail(str), 0)
    ELSE GroupLengths(Tail(str), run + 1)

\* format_display_number was applied to a non-empty digit string for which
\* no country rule returns
GenericCase ==
    /\ reg_display # NoResult
    /\ Len(reg_digits) > 0
    /\ AllDigits(reg_digits)
    /\ ~HasCountryRule(reg_code, Len(reg_digits))

\* C12 as stated: when no country rule applies the digits are grouped in
\* consecutive groups of 3, and a 4th group holds whatever remains beyond the
\* first 9 digits.
C12_GroupsOfThree ==
    GenericCase => reg_display = GenericFormat_threes(reg_digits)

\* C12 amended: when no country rule applies the result holds the digits in
\* order, unbroken up to 6 digits, as groups of 3, 3 and the rest for 7 to 10
\* digits, and as groups of 3, 3, 4 and the rest beyond 10 digits.
C12_GenericGrouping ==
    GenericCase =>
        LET n == Len(reg_digits) IN
        /\ SelectSeq(reg_display, LAMBDA c : c # " ") = reg_digits
        /\ GroupLengths(reg_display, 0) =
                IF n <= 6 THEN <<n>>
                ELSE IF n <= 10 THEN <<3, 3, n - 6>>
                ELSE <<3, 3, 4, n - 10>>

\* an 11-digit number without a country rule has been formatted
C12_Witness ==
    /\ GenericCase
    /\ Len(reg_digits) = 11

-----------------------------------------------------------------------------
(* Properties of country browsing, under SpecBrowse                        *)

\* a continent argument is given and is not a key of the dataset
UnknownContinent == browse_continent # "" /\ browse_continent \notin ContinentKeys

\* a subregion argument is given and is not a key of the dataset under the
\* given continent (under any continent when no continent is given)
UnknownSubregion ==
    /\ browse_subregion # ""
    /\ IF browse_continent \in ContinentKeys
       THEN browse_subregion \notin SubregionKeys(browse_continent)
       ELSE \A c \in ContinentKeys : browse_subregion \notin SubregionKeys(c)

\* C13: get_countries_by_continent_and_subregion returns an empty list
\* whenever the continent key or the subregion key it is given is not a key
\* of the dataset, for every continent, the single-subregion continent and
\* the All Continents entry included.
C13_UnknownKeyGivesEmpty ==
    (browse_pc = "done" /\ (UnknownContinent \/ UnknownSubregion))
        => browse_result = {}

-----------------------------------------------------------------------------
(* Properties of _get_unique_latex_for_digit, under SpecCompose            *)

\* C14: every expression that _get_unique_latex_for_digit returned from a
\* digit's template list, by the loop or by the last-resort draw, is a member
\* of used_formulas once the call has returned.
C14_ReturnedIsRecorded ==
    \A i \in 1..Len(latex_parts) :
        latex_parts[i].k = "template" => latex_parts[i] \in used_formulas

-----------------------------------------------------------------------------
(* Properties of the token stream, under SpecCompose                       *)

\* a token list with every digit token replaced by a mark of its digit
DigitMarked(parts) ==
    [i \in 1..Len(parts) |->
        IF parts[i].k \in {"template", "placeholder"}
        THEN Token("digit", parts[i].c, 0)
        ELSE parts[i]]

\* one digit mark per character of a string
Marks(str) == [i \in 1..Len(str) |-> Token("digit", str[i], 0)]

\* the stream of a number: plus, country code, the given gap, subscriber
StreamWith(gap) ==
    (IF has_plus THEN <<eq_plus>> ELSE <<>>)
    \o Marks(country_code)
    \o gap
    \o (IF Len(main_number) = 10
        THEN <<OPEN_PAREN>> \o Marks(SubSeq(main_number, 1, 3))
             \o <<CLOSE_PAREN, THINSPACE>> \o Marks(SubSeq(main_number, 4, 6))
             \o <<DASH>> \o Marks(SubSeq(main_number, 7, 10))
        ELSE Marks(main_number))

\* C15 as stated: the stream is the plus token if the input had a leading
\* plus, one digit token per country-code digit, a major-gap, and then the
\* grouped subscriber (exactly 10 digits) or one digit token per subscriber
\* digit.
C15_StreamAlwaysHasGap ==
    pc = "verify" => DigitMarked(latex_parts) = StreamWith(<<QUAD>>)

\* C15 amended: the same order, with the major-gap present exactly when the
\* country code is not empty.
C15_StreamOrder ==
    pc = "verify" =>
        DigitMarked(latex_parts) =
            StreamWith(IF Len(country_code) > 0 THEN <<QUAD>> ELSE <<>>)

\* a 10-digit number without a country code has been composed
C15_Witness ==
    /\ pc = "verify"
    /\ Len(country_code) = 0
    /\ Len(main_number) = 10

-----------------------------------------------------------------------------
(* Properties of line wrapping, under SpecCompose                          *)

\* the tokens of a list of columns, or of a list of lines, in order
RECURSIVE Flatten(_)
Flatten(seqs) == IF Len(seqs) = 0 THEN <<>> ELSE Head(seqs) \o Flatten(Tail(seqs))

\* the tokens of output line l
LineTokens(l) == Flatten(math_lines[l])

\* the composed stream has been wrapped
Wrapped == pc = "verify"

\* C16: group-open, the three area-code digit tokens and group-close are in
\* one output line, adjacent and in order, for every stream that has an
\* area-code block.
C16_BlockNotSplit ==
    Wrapped =>
        /\ Len(main_number) = 10 =>
                \E l \in 1..Len(math_lines) :
                    \E k \in 1..Len(LineTokens(l)) : LineTokens(l)[k] = OPEN_PAREN
        /\ \A l \in 1..Len(math_lines) :
                \A k \in 1..Len(LineTokens(l)) :
                    LineTokens(l)[k] = OPEN_PAREN =>
                        /\ k + 4 <= Len(LineTokens(l))
                        /\ DigitMarked(SubSeq(LineTokens(l), k + 1, k + 3))
                               = Marks(SubSeq(main_number, 1, 3))
                        /\ LineTokens(l)[k + 4] = CLOSE_PAREN

\* a number with plus, a two-digit country code and an area-code block has
\* been wrapped
C16_Witness ==
    /\ Wrapped
    /\ has_plus
    /\ Len(country_code) = 2
    /\ Len(main_number) = 10

\* C17: the minor-gap that follows group-close is in the same output line as
\* the area-code block, directly after it.
C17_GapStaysWithBlock ==
    Wrapped =>
        \A l \in 1..Len(math_lines) :
            \A k \in 1..Len(LineTokens(l)) :
                LineTokens(l)[k] = CLOSE_PAREN =>
                    /\ k + 1 <= Len(LineTokens(l))
                    /\ LineTokens(l)[k + 1] = THINSPACE

\* a column is the whole area-code block or one token outside it
IsColumn(col) ==
    IF col[1] = OPEN_PAREN
    THEN Len(col) = 5 /\ col[5] = CLOSE_PAREN
    ELSE Len(col) = 1 /\ col[1] # CLOSE_PAREN

\* C18: every output line holds at most 3 columns, a column being the whole
\* area-code block or one token outside it; every line but the last holds
\* exactly 3, no line is empty, and the lines hold the stream in order.
C18_ThreeColumns ==
    Wrapped =>
        /\ \A l \in 1..Len(math_lines) :
                /\ Len(math_lines[l]) >= 1
                /\ Len(math_lines[l]) <= 3
                /\ l < Len(math_lines) => Len(math_lines[l]) = 3
                /\ \A c \in 1..Len(math_lines[l]) : IsColumn(math_lines[l][c])
        /\ Flatten([l \in 1..Len(math_lines) |-> LineTokens(l)]) = latex_parts

\* a stream with an area-code block has been wrapped into four lines or more
C18_Witness ==
    /\ Wrapped
    /\ Len(main_number) = 10
    /\ Len(math_lines) >= 4

-----------------------------------------------------------------------------
(* Properties of the rendering steps, under Spec                           *)

\* render_latex_to_png has returned a failure
RenderGaveUp == render_result[2] \notin {None, Msg("msg", "Success", "")}

\* a tool timed out or exited with a non-zero code
TimeoutOrNonZeroExit ==
    \/ render_result[2].detail \in {TimeoutText, ExitStatusText}
    \/ render_result[2].text = "LaTeX compile error. Check logs for details. Return code: "

\* C19: within one generate_latex_for_number call the typesetter and the
\* rasterizer are each invoked at most once, the rasterizer only after the
\* typesetter ran without failure and its PDF exists, no tool is invoked
\* after a failure, and a timeout or non-zero exit ends the request with an
\* error and no returned path.
C19_NoRetry ==
    /\ [](/\ pdflatex_calls <= 1
          /\ pdftoppm_calls <= 1
          /\ pdftoppm_calls = 1 => pdflatex_calls = 1
          /\ TimeoutOrNonZeroExit =>
                /\ pc \in {"rendered", "raised"}
                /\ returned = "None"
                /\ pc = "raised" => raised.type = "RuntimeError")
    /\ [][/\ pdftoppm_calls' # pdftoppm_calls =>
                /\ render_result[2] = None
                /\ temp_dir.exists
                /\ temp_dir.pdf
          /\ RenderGaveUp =>
                /\ pdflatex_calls' = pdflatex_calls
                /\ pdftoppm_calls' = pdftoppm_calls
                /\ pc' = "raised"
         ]_vars

\* the typesetter exited with a non-zero code and the request has failed
\* without a rasterizer call
C19_Witness ==
    /\ pc = "raised"
    /\ render_result[2].text = "LaTeX compile error. Check logs for details. Return code: "
    /\ pdflatex_calls = 1
    /\ pdftoppm_calls = 0

-----------------------------------------------------------------------------
(* Properties of the verification records, under Spec                      *)

\* C20: the verification artifact has exactly one record per non-separator
\* token of the composed stream, in stream order, and the expected value of
\* each record is the plus symbol or the digit for which the composer
\* generated that token's expression.
C20_RecordsMatchStream ==
    verification_path # "None" =>
        LET tokens == SelectSeq(latex_parts,
                        LAMBDA t : t.k \in {"plus", "template", "placeholder"})
        IN  /\ Len(verification_data) = Len(tokens)
            /\ \A i \in 1..Len(tokens) :
                    /\ verification_data[i].latex_expression = tokens[i]
                    /\ verification_data[i].expected_value = tokens[i].c

\* the verification file of a number with plus, a three-digit country code
\* and a grouped subscriber has been written
C20_Witness ==
    /\ verification_path # "None"
    /\ has_plus
    /\ Len(country_code) = 3
    /\ Len(main_number) = 10
    /\ Len(verification_data) = 14

-----------------------------------------------------------------------------
(* Properties of the temporary directory, under Spec                       *)

\* render_latex_to_png has returned or raised, or was never entered
RenderLeft == pc \in {"rendered", "raised", "returned"}

\* C21: on every exit path of render_latex_to_png (success, .tex write
\* failure, typesetter error or timeout, missing PDF, rasterizer error or
\* timeout, missing PNG, failed copy) the temporary directory and the .tex,
\* .pdf and .png files in it are gone when the call has returned.
C21_TempDirReleased ==
    /\ [](RenderLeft => temp_dir = NoTempDir)
    /\ [][(temp_dir.exists /\ pc' \in {"rendered", "raised"}) =>
               (~temp_dir'.exists /\ ~temp_dir'.pdf /\ ~temp_dir'.png
                /\ temp_dir'.tex = <<>>)]_vars

\* the rasterizer ran, no PNG was found and the call has returned
C21_Witness ==
    /\ pc = "rendered"
    /\ render_result[2].text = "PNG not generated."
    /\ pdftoppm_calls = 1
    /\ temp_dir = NoTempDir

-----------------------------------------------------------------------------
(* Composer calls in progress side by side.  used_formulas is a local of    *)
(* generate_latex_for_number (line 246), so every call has its own; the     *)
(* template lists come from the functions of equation_bank.py.              *)

\* sequential calls one caller may make
MaxRuns == 2

FrameInputs == {<<"1", "5">>, <<"1", "1", "1">>, <<"5", "1", "5">>}

Range(f) == {f[i] : i \in DOMAIN f}

\* entry of generate_latex_for_number up to line 247: fresh locals
FrameBegin(c) ==
    /\ frames[c].pc \in {"idle", "done"}
    /\ frames[c].runs < MaxRuns
    /\ \E n \in FrameInputs :
          frames' = [frames EXCEPT ![c] =
                        [pc |-> "compose", clean_number |-> n,
                         latex_parts |-> <<>>, used_formulas |-> {},
                         runs |-> frames[c].runs + 1]]
    /\ UNCHANGED <<reg_vars, gen_vars, render_vars, out_vars, ui_vars,
                   bank, pick, sig>>

\* FramePick with one used_formulas set shared by all calls
FramePick_shared(c) ==
    LET f == frames[c]
        digit_char == f.clean_number[Len(f.latex_parts) + 1]
    IN /\ f.pc = "compose"
       /\ \E r \in PickResults(digit_char, f.used_formulas) :
             frames' = [d \in Calls |->
                 IF d = c
                 THEN [f EXCEPT !.latex_parts = Append(@, r[1]),
                                !.used_formulas = r[2],
                                !.pc = IF Len(f.latex_parts) + 1 = Len(f.clean_number)
                                       THEN "done" ELSE "compose"]
                 ELSE [frames[d] EXCEPT !.used_formulas = r[2]]]
       /\ UNCHANGED <<reg_vars, gen_vars, render_vars, out_vars, ui_vars,
                      bank, pick, sig>>

\* one _get_unique_latex_for_digit call of the emission loop of call c (lines
\* 249-266); latex_parts keeps the digit expressions only
FramePick(c) ==
    LET f == frames[c]
        digit_char == f.clean_number[Len(f.latex_parts) + 1]
    IN /\ f.pc = "compose"
       /\ \E r \in PickResults(digit_char, f.used_formulas) :
             frames' = [frames EXCEPT ![c] =
                 [f EXCEPT !.latex_parts = Append(@, r[1]),
                           !.used_formulas = r[2],
                           !.pc = IF Len(f.latex_parts) + 1 = Len(f.clean_number)
                                  THEN "done" ELSE "compose"]]
       /\ UNCHANGED <<reg_vars, gen_vars, render_vars, out_vars, ui_vars,
                      bank, pick, sig>>

FramesInit ==
    /\ RegIdle
    /\ GenIdle
    /\ UiStart
    /\ UnitIdle

FramesNext == \E c \in Calls : FrameBegin(c) \/ FramePick(c)

SpecFrames == FramesInit /\ [][FramesNext]_vars

\* C22: composer calls share no mutable composition state: a call starts with
\* an empty used-formula set, a call's set holds only expressions that call
\* itself returned, a step of one call leaves the locals of every other call
\* as they were, and the template collections of the expression bank stay as
\* the bank defines them.
C22_CallsShareNothing ==
    /\ [](\A c \in Calls :
             frames[c].used_formulas \subseteq Range(frames[c].latex_parts))
    /\ [](bank = BankTemplates)
    /\ [][\A c \in Calls :
             /\ (frames[c].pc # "compose" /\ frames'[c].pc = "compose")
                    => frames'[c].used_formulas = {}
             /\ frames'[c] # frames[c]
                    => \A d \in Calls \ {c} : frames'[d] = frames[d]]_vars

C22_Witness ==
    /\ frames[1].pc = "compose"
    /\ frames[2].pc = "compose"
    /\ frames[1].runs = 2
    /\ frames[2].used_formulas # {}
    /\ \E t \in frames[1].used_formulas : t \notin frames[2].used_formulas

-----------------------------------------------------------------------------
(* _get_unique_latex_for_digit, one random draw at a time                  *)

PickChars == {"1", "5", "7", "a", SuperscriptTwo}

\* expressions that may already be in used_formulas when the call starts
PickUsed == SUBSET (Templates("1") \cup Templates("5") \cup Templates("7"))

PickInit ==
    /\ RegIdle
    /\ GenIdle
    /\ UiStart
    /\ frames = [c \in Calls |-> FrameIdle]
    /\ bank = BankTemplates
    /\ sig = SigIdle
    /\ \E ch \in PickChars, u \in PickUsed :
          pick = [pc |-> "entry", digit_char |-> ch, used_before |-> u,
                  used_formulas |-> u, attempts |-> 0, draws |-> 0,
                  latex_str |-> NoExpression, ret |-> "none"]

\* PickEntry whose placeholder is recorded in used_formulas
PickEntry_record ==
    /\ pick.pc = "entry"
    /\ pick' = IF ~IsDigit(pick.digit_char) \/ ~HasTemplates(pick.digit_char)
               THEN [pick EXCEPT !.pc = "returned",
                                 !.latex_str = eq_placeholder(pick.digit_char),
                                 !.used_formulas = @ \cup {eq_placeholder(pick.digit_char)},
                                 !.ret = "placeholder"]
               ELSE [pick EXCEPT !.pc = "loop"]
    /\ UNCHANGED <<reg_vars, gen_vars, render_vars, out_vars, ui_vars,
                   frames, bank, sig>>

\* lines 207-215: the two placeholder returns, else on to the loop
PickEntry ==
    /\ pick.pc = "entry"
    /\ pick' = IF ~IsDigit(pick.digit_char) \/ ~HasTemplates(pick.digit_char)
               THEN [pick EXCEPT !.pc = "returned",
                                 !.latex_str = eq_placeholder(pick.digit_char),
                                 !.ret = "placeholder"]
               ELSE [pick EXCEPT !.pc = "loop"]
    /\ UNCHANGED <<reg_vars, gen_vars, render_vars, out_vars, ui_vars,
                   frames, bank, sig>>

\* lines 217-222: one pass of the loop over range(MAX_UNIQUE_ATTEMPTS)
PickDraw ==
    /\ pick.pc = "loop"
    /\ pick.attempts < MAX_UNIQUE_ATTEMPTS
    /\ \E latex_str \in Templates(pick.digit_char) :
          pick' = IF latex_str \notin pick.used_formulas
                  THEN [pick EXCEPT !.attempts = @ + 1, !.draws = @ + 1,
                                    !.used_formulas = @ \cup {latex_str},
                                    !.latex_str = latex_str,
                                    !.pc = "returned", !.ret = "loop"]
                  ELSE [pick EXCEPT !.attempts = @ + 1, !.draws = @ + 1]
    /\ UNCHANGED <<reg_vars, gen_vars, render_vars, out_vars, ui_vars,
                   frames, bank, sig>>

\* PickFinal that only returns an expression not yet in used_formulas
PickFinal_unique ==
    /\ pick.pc = "loop"
    /\ pick.attempts = MAX_UNIQUE_ATTEMPTS
    /\ \E latex_str \in Templates(pick.digit_char) \ pick.used_formulas :
          pick' = [pick EXCEPT !.draws = @ + 1, !.latex_str = latex_str,
                               !.pc = "returned", !.ret = "fallback"]
    /\ UNCHANGED <<reg_vars, gen_vars, render_vars, out_vars, ui_vars,
                   frames, bank, sig>>

\* line 224: the draw after the loop has run out
PickFinal ==
    /\ pick.pc = "loop"
    /\ pick.attempts = MAX_UNIQUE_ATTEMPTS
    /\ \E latex_str \in Templates(pick.digit_char) :
          pick' = [pick EXCEPT !.draws = @ + 1, !.latex_str = latex_str,
                               !.pc = "returned", !.ret = "fallback"]
    /\ UNCHANGED <<reg_vars, gen_vars, render_vars, out_vars, ui_vars,
                   frames, bank, sig>>

PickNext == PickEntry \/ PickDraw \/ PickFinal

SpecPick == PickInit /\ [][PickNext]_vars

\* the call is one thread of straight-line code: while a statement can run,
\* it runs
SpecPickLive == SpecPick /\ WF_vars(PickNext)

\* C23: a call for a digit with a template collection returns after at most
\* MAX_UNIQUE_ATTEMPTS draws in the loop plus one final draw, and what it
\* returns is a template of that digit, also when every template of the digit
\* is already in used_formulas.
C23_PickTerminates ==
    /\ <>(pick.pc = "returned")
    /\ [](pick.attempts <= MAX_UNIQUE_ATTEMPTS
          /\ pick.draws <= MAX_UNIQUE_ATTEMPTS + 1)
    /\ []((pick.pc = "returned" /\ pick.ret \in {"loop", "fallback"})
            => /\ pick.latex_str \in Templates(pick.digit_char)
               /\ pick.ret = "fallback" => pick.draws = MAX_UNIQUE_ATTEMPTS + 1
               /\ pick.ret = "loop" => pick.draws <= MAX_UNIQUE_ATTEMPTS)
    /\ []((pick.pc = "returned" /\ HasTemplates(pick.digit_char))
            => pick.ret \in {"loop", "fallback"})

C23_Witness ==
    /\ pick.pc = "returned"
    /\ pick.ret = "fallback"
    /\ Templates(pick.digit_char) \subseteq pick.used_before
    /\ pick.draws = MAX_UNIQUE_ATTEMPTS + 1
    /\ pick.latex_str \in Templates(pick.digit_char)

AllTemplates == UNION {Templates(d) : d \in AsciiDigitSet}

NoCollection(ch) == ~IsDigit(ch) \/ ~HasTemplates(ch)

\* C24: for a character without a template collection the call returns, in
\* its first step and without a draw, the placeholder built from that very
\* character, which is no template of any digit, and used_formulas is what it
\* was on entry.
C24_PlaceholderForUnknown ==
    /\ []((pick.pc = "returned" /\ NoCollection(pick.digit_char))
            => /\ pick.ret = "placeholder"
               /\ pick.latex_str = eq_placeholder(pick.digit_char)
               /\ pick.latex_str.c = pick.digit_char
               /\ pick.latex_str \notin AllTemplates
               /\ pick.draws = 0
               /\ pick.used_formulas = pick.used_before)
    /\ [][(pick.pc = "entry" /\ NoCollection(pick.digit_char))
            => pick'.pc = "returned"]_vars

C24_Witness ==
    /\ pick.pc = "returned"
    /\ pick.digit_char = SuperscriptTwo
    /\ pick.ret = "placeholder"
    /\ pick.used_before # {}
    /\ pick.used_formulas = pick.used_before

-----------------------------------------------------------------------------
(* generate_latex_for_number, lines 271-274: the signature                 *)

MaxSigLen == 3

\* the eight mapped characters and two that the table does not mention
SigChars == {"\\", "&", "%", "$", "#", "_", "{", "}", "a", "~"}

TEXTBACKSLASH ==
    <<"\\", "t", "e", "x", "t", "b", "a", "c", "k", "s", "l", "a", "s", "h",
      "{", "}">>

\* the table given to str.maketrans
SigEscapes ==
    [ch \in {"\\", "&", "%", "$", "#", "_", "{", "}"} |->
        IF ch = "\\" THEN TEXTBACKSLASH ELSE <<"\\", ch>>]

\* str.replace(ch, SigEscapes[ch]) over the whole of s
RECURSIVE Replace(_, _)
Replace(s, ch) ==
    IF s = <<>> THEN <<>>
    ELSE (IF s[1] = ch THEN SigEscapes[ch] ELSE <<s[1]>>) \o Replace(Tail(s), ch)

\* Translate as a chain of str.replace calls, one per table entry, each over
\* the result of the one before
Translate_chained(s) ==
    Replace(Replace(Replace(Replace(Replace(Replace(Replace(Replace(s,
        "\\"), "&"), "%"), "$"), "#"), "_"), "{"), "}")

\* str.translate(table): each character of s is looked up once, and the
\* results are joined in order
RECURSIVE Translate(_)
Translate(s) ==
    IF s = <<>> THEN <<>>
    ELSE (IF s[1] \in DOMAIN SigEscapes THEN SigEscapes[s[1]] ELSE <<s[1]>>)
         \o Translate(Tail(s))

RECURSIVE SigStrings(_)
SigStrings(n) ==
    IF n = 0 THEN {<<>>}
    ELSE SigStrings(n - 1)
         \cup {Append(t, ch) : t \in {u \in SigStrings(n - 1) : Len(u) = n - 1},
                               ch \in SigChars}

SigInit ==
    /\ RegIdle
    /\ GenIdle
    /\ UiStart
    /\ frames = [c \in Calls |-> FrameIdle]
    /\ bank = BankTemplates
    /\ pick = PickIdle
    /\ \E t \in SigStrings(MaxSigLen) :
          sig = [pc |-> "given", signature_text |-> t, escaped_signature |-> <<>>]

\* lines 271-274
SigEscape ==
    /\ sig.pc = "given"
    /\ sig' = [sig EXCEPT !.pc = "escaped",
                          !.escaped_signature = Translate(sig.signature_text)]
    /\ UNCHANGED <<reg_vars, gen_vars, render_vars, out_vars, ui_vars,
                   frames, bank, pick>>

SigNext == SigEscape

SpecSig == SigInit /\ [][SigNext]_vars

SpecialChars == {"\\", "&", "%", "$", "#", "_", "{", "}"}

\* what one character of the signature must have become
EscapedForm(ch) ==
    IF ch = "\\" THEN TEXTBACKSLASH
    ELSE IF ch \in SpecialChars THEN <<"\\", ch>>
    ELSE <<ch>>

\* out is the escaped forms of the characters of text, in order, nothing else
RECURSIVE Pieces(_, _)
Pieces(text, out) ==
    IF text = <<>> THEN out = <<>>
    ELSE LET e == EscapedForm(text[1])
         IN /\ Len(out) >= Len(e)
            /\ SubSeq(out, 1, Len(e)) = e
            /\ Pieces(Tail(text), SubSeq(out, Len(e) + 1, Len(out)))

\* reading an escaped text back: a backslash opens an escape
RECURSIVE Unescape(_)
Unescape(out) ==
    IF out = <<>> THEN <<>>
    ELSE IF out[1] # "\\" THEN <<out[1]>> \o Unescape(Tail(out))
    ELSE IF Len(out) >= Len(TEXTBACKSLASH)
            /\ SubSeq(out, 1, Len(TEXTBACKSLASH)) = TEXTBACKSLASH
    THEN <<"\\">> \o Unescape(SubSeq(out, Len(TEXTBACKSLASH) + 1, Len(out)))
    ELSE IF Len(out) >= 2
    THEN <<out[2]>> \o Unescape(SubSeq(out, 3, Len(out)))
    ELSE <<"?">>

\* C25: the escaped signature is, character by character and in order, the
\* escaped form of each of the eight special characters and every other
\* character as it was; what a replacement produced is not escaped again, so
\* reading the escapes back gives the signature text.
C25_SinglePassEscape ==
    sig.pc = "escaped"
        => /\ Pieces(sig.signature_text, sig.escaped_signature)
           /\ Unescape(sig.escaped_signature) = sig.signature_text
           /\ DOMAIN SigEscapes = SpecialChars

C25_Witness ==
    /\ sig.pc = "escaped"
    /\ sig.signature_text = <<"\\", "{", "a">>
    /\ sig.escaped_signature = TEXTBACKSLASH \o <<"\\", "{", "a">>

-----------------------------------------------------------------------------
(* The wrapped lines against the composed stream, under SpecCompose        *)

\* the tokens of the output lines, first line to last
AllLineTokens == Flatten([l \in 1..Len(math_lines) |-> LineTokens(l)])

\* C26: wrapping loses and reorders nothing: the tokens of the output lines
\* read from the first line to the last are the composed stream, token for
\* token, and every token occurs in the lines as often as in the stream.
C26_WrapKeepsStream ==
    Wrapped =>
        /\ Len(AllLineTokens) = Len(latex_parts)
        /\ \A k \in 1..Len(latex_parts) : AllLineTokens[k] = latex_parts[k]
        /\ \A t \in Range(latex_parts) :
              Occurrences(t, AllLineTokens) = Occurrences(t, latex_parts)

\* a stream with a country code and an area-code block whose last line is
\* not full
C26_Witness ==
    /\ Wrapped
    /\ country_code # <<>>
    /\ Len(main_number) = 10
    /\ Len(math_lines) >= 3
    /\ Len(math_lines[Len(math_lines)]) < MAX_LINE_LENGTH

-----------------------------------------------------------------------------
(* The form's number against what the composer makes of it, under SpecUI   *)

\* the digits of the calling code of the selected country
FormCode == IntToStr(extract_country_code_from_label(country_var))

\* the composer has emitted the stream of the number Generate passed on
Composed == pc = "wrap" /\ country_var # ""

\* C27: the digits the composer receives from on_generate, and the digits
\* its digit tokens stand for, are the digits of the selected calling code
\* followed by the local digits of the form.
C27_DigitFidelity ==
    Composed =>
        /\ clean_number = FormCode \o local_number_var
        /\ DigitTokenValues(latex_parts) = FormCode \o local_number_var

\* the position of the first major-gap of a stream, 0 when it has none
GapIndex(parts) ==
    IF \E i \in 1..Len(parts) : parts[i] = QUAD
    THEN CHOOSE i \in 1..Len(parts) :
            parts[i] = QUAD /\ \A j \in 1..(i - 1) : parts[j] # QUAD
    ELSE 0

\* C28: the composer splits the number where the form does: the digit tokens
\* before the major-gap stand for the digits of the selected calling code
\* and the digit tokens after it for the local digits of the form.
C28_SplitAgrees ==
    Composed =>
        /\ country_code = FormCode
        /\ main_number = local_number_var
        /\ GapIndex(latex_parts) > 0
        /\ DigitTokenValues(SubSeq(latex_parts, 1, GapIndex(latex_parts))) = FormCode
        /\ DigitTokenValues(SubSeq(latex_parts, GapIndex(latex_parts),
                                   Len(latex_parts))) = local_number_var

-----------------------------------------------------------------------------
(* The local-number field, under SpecUI                                    *)

\* the limit create_validation applies for the code the label shows
ShownLimit ==
    IF country_code_label = <<"+">> THEN 15
    ELSE get_digit_limit(StrToInt(Tail(country_code_label)))

SelectionStep ==
    \/ \E continent \in ContinentOptions : on_continent_select(continent)
    \/ \E subregion \in subregion_values : on_subregion_select(subregion)
    \/ \E country \in country_values : on_country_select(country)

\* C29: the local-number field holds digits only and never more than
\* digit_limit of the calling code shown (15 when none is shown); every
\* continent, subregion or country selection empties it; and it is editable
\* only while a country with a calling code is selected.
C29_FieldWithinLimit ==
    /\ [](/\ \A i \in 1..Len(local_number_var) : IsDigit(local_number_var[i])
          /\ Len(local_number_var) <= ShownLimit
          /\ entry_state = "normal" =>
                /\ country_var # ""
                /\ extract_country_code_from_label(country_var) # NoCode
                /\ country_code_label =
                       <<"+">> \o IntToStr(extract_country_code_from_label(country_var)))
    /\ [][SelectionStep => local_number_var' = <<>>]_vars
    /\ [][local_number_var' # local_number_var =>
              (entry_state = "normal" \/ local_number_var' = <<>>)]_vars

\* the field has been typed full for a country whose limit is below 15
C29_Witness ==
    /\ entry_state = "normal"
    /\ country_var = "Saint Helena"
    /\ Len(local_number_var) = ShownLimit
    /\ ShownLimit = 4
    /\ pc = "idle"

-----------------------------------------------------------------------------
(* The output directory during one request, under Spec                     *)

\* render_latex_to_png has been called and the request has not returned
RenderInvoked == pc \in {"render", "pdflatex", "pdftoppm", "copy", "rendered"}

\* the complete verification file of the current request is in the output
\* directory
VerificationPresent ==
    \E i \in 1..Len(out_verification) :
        out_verification[i] = VerificationFile(request_no, TRUE)

\* the image the request found is still the image in the output directory
ImageUntouched == out_image.request # request_no

\* the image is written by the copy alone, after both tools ran and the PNG
\* exists
CopyIsLast ==
    [][out_image' # out_image =>
          /\ pc = "copy"
          /\ pdflatex_calls = 1
          /\ pdftoppm_calls = 1
          /\ temp_dir.pdf /\ temp_dir.png]_vars

\* C30 as stated: the verification file is in the output directory whenever
\* the render collaborator is invoked, the image is copied only as the last
\* step, and a request whose rendering fails leaves its verification file in
\* the output directory and the image untouched.
C30_VerificationBeforeRender ==
    /\ [](RenderInvoked => VerificationPresent)
    /\ CopyIsLast
    /\ [](RenderFailed => (VerificationPresent /\ ImageUntouched))

\* C30, amended: the verification file is written, if at all, in the step
\* before the render collaborator is invoked, and a file reported by
\* create_verification_output is complete and stays; the image is copied only
\* as the last step; a request whose render step fails leaves the image
\* untouched, and its verification file in place when one was reported.
C30_VerificationAttemptBeforeRender ==
    /\ [][out_verification' # out_verification =>
              /\ pc = "verify"
              /\ pc' = "render"
              /\ Len(out_verification') = Len(out_verification) + 1
              /\ SubSeq(out_verification', 1, Len(out_verification)) = out_verification
              /\ out_verification'[Len(out_verification')].request = request_no]_vars
    /\ []((RenderInvoked \/ RenderFailed) =>
              (verification_path # "None" <=> VerificationPresent))
    /\ CopyIsLast
    /\ [](RenderFailed => ImageUntouched)

\* the rasterizer failed after a verification file was written over an
\* earlier image
C30_Witness ==
    /\ RenderFailed
    /\ pdftoppm_calls = 1
    /\ VerificationPresent
    /\ out_image = PriorImage


====
